---- MODULE Spec2Model ----
(***************************************************************************)
(* Model of the request-schema engine of fxfn/x (package schema):          *)
(*   - the request parser / validator and its error mapper (schema.go),    *)
(*   - the OpenAPI document generator (openapi generator source).          *)
(*                                                                         *)
(* Text is modelled as a sequence of atoms.  Identifiers, tag values and   *)
(* raw request values are sequences of one-character atoms, so that case   *)
(* folding, capitalisation and number parsing are computed; the fixed      *)
(* phrases of error messages are sequences of word atoms, so that          *)
(* strings.Contains / strings.Index are computed as contiguous sub-        *)
(* sequence search.  The atom ":" stands for the two characters ": ".      *)
(***************************************************************************)
EXTENDS Integers, Sequences, FiniteSets, TLC

(***************************************************************************)
(* Text helpers                                                            *)
(***************************************************************************)
Upper == <<"A","B","C","D","E","F","G","H","I","J","K","L","M","N","O","P","Q","R","S","T","U","V","W","X","Y","Z">>
Lower == <<"a","b","c","d","e","f","g","h","i","j","k","l","m","n","o","p","q","r","s","t","u","v","w","x","y","z">>

LowerCh(c) == IF \E i \in 1..26 : Upper[i] = c THEN Lower[CHOOSE i \in 1..26 : Upper[i] = c] ELSE c
UpperCh(c) == IF \E i \in 1..26 : Lower[i] = c THEN Upper[CHOOSE i \in 1..26 : Lower[i] = c] ELSE c

\* strings.ToLower
ToLower(s) == [i \in 1..Len(s) |-> LowerCh(s[i])]

\* strings.Index(s, sub): first position (1-based) of sub in s, 0 when absent
StrIndex(s, sub) ==
  LET hits == { i \in 1..(Len(s) - Len(sub) + 1) : SubSeq(s, i, i + Len(sub) - 1) = sub }
  IN IF Len(sub) > Len(s) \/ hits = {} THEN 0
     ELSE CHOOSE i \in hits : \A j \in hits : i <= j

\* strings.Contains
StrContains(s, sub) == StrIndex(s, sub) # 0

\* s[idx+len(sub):] for the 1-based idx of StrIndex
StrAfter(s, idx, sub) == SubSeq(s, idx + Len(sub), Len(s))

RECURSIVE JoinWith(_, _)
\* strings.Join(parts, sep)
JoinWith(parts, sep) ==
  IF Len(parts) = 0 THEN <<>>
  ELSE IF Len(parts) = 1 THEN parts[1]
  ELSE parts[1] \o sep \o JoinWith(Tail(parts), sep)

Quote(s) == <<"'">> \o s \o <<"'">>

(***************************************************************************)
(* Errors: Go error values.  kind "plain" is an error made by fmt.Errorf   *)
(* or errors.New or a library; "SchemaError" and "ErrorResult" are the     *)
(* two user error types of result.go.                                      *)
(***************************************************************************)
Nil == [nil |-> TRUE, kind |-> "plain", code |-> <<>>, msg |-> <<>>]
PlainErr(m) == [nil |-> FALSE, kind |-> "plain", code |-> <<>>, msg |-> m]
SchemaError(c, m) == [nil |-> FALSE, kind |-> "SchemaError", code |-> c, msg |-> m]
ErrorResult(c, m) == [nil |-> FALSE, kind |-> "ErrorResult", code |-> c, msg |-> m]

\* err.Error()
ErrorText(e) ==
  IF e.kind = "plain" THEN e.msg
  ELSE <<"[">> \o e.code \o <<"]">> \o e.msg

\* fmt.Errorf(prefix + ": %w", err)
Wrap(prefix, e) == PlainErr(prefix \o <<":">> \o ErrorText(e))

(***************************************************************************)
(* Type descriptors (reflect.Type).  A type is looked up by an identifier  *)
(* in a table, so that a record type can refer to itself.  name is         *)
(* t.Name(): empty for an anonymous struct and for slices and pointers.    *)
(* A struct tag is kept per key as the list of its comma-separated parts.  *)
(***************************************************************************)
NoTags == [param |-> <<>>, query |-> <<>>, json |-> <<>>, default |-> <<>>,
           validate |-> <<>>, binding |-> <<>>]

Prim(k)          == [kind |-> k, name |-> <<k>>, elem |-> "", fields |-> <<>>]
Struct(n, fs)    == [kind |-> "struct", name |-> n, elem |-> "", fields |-> fs]
SliceOf(e)       == [kind |-> "slice", name |-> <<>>, elem |-> e, fields |-> <<>>]
PtrTo(e)         == [kind |-> "ptr", name |-> <<>>, elem |-> e, fields |-> <<>>]
Fld(n, t, tags)  == [name |-> n, type |-> t, tags |-> tags]

cParams  == <<"P","a","r","a","m","s">>
cQuery   == <<"Q","u","e","r","y">>
cBody    == <<"B","o","d","y">>
cRequired == <<"required">>

\* The request schema types and their anonymous sub-records, in Go:
\*   ParamsID    struct { ID string `param:"id" validate:"required"` }
\*   ParamsIDN   struct { ID string `param:"id,required"`; N int `param:"n" default:"5"` }
\*   ParamsN     struct { N int `binding:"required"` }
\*   QueryLimit  struct { Limit int `query:"limit" default:"10"` }
\*   QueryQLimit struct { Q string `query:"q,required"`; Limit int `default:"10" validate:"min=1"` }
\*   BodyName    struct { Name string `json:"name" validate:"required"` }
\*   BodyAge     struct { Age int `json:"age,required"` }
\*   BodyEmail   struct { Email string `json:"email" binding:"required"`; Age int `json:"age"` }
\*   ItemSchema   { Params ParamsID; Query QueryLimit }
\*   UpdateSchema { Body BodyName; Query QueryQLimit; Params ParamsIDN }
\*   CreateSchema { Params ParamsN; Body BodyAge }
\*   SignupSchema { Query QueryLimit; Body BodyEmail }
\*   ListSchema   { Page int `json:"page" default:"1"`; Query QueryLimit }
\*   PostSearchSchema { Query string `json:"query" validate:"required"` }
\*     (examples/fix-test/test_query_detection.go)
\*   NoteSchema { Body struct { Name string `json:"name"` } }
RequestTypes ==
  [ string |-> Prim("string"), int |-> Prim("int"), bool |-> Prim("bool"),
    ParamsID |-> Struct(<<>>, << Fld(<<"I","D">>, "string", [NoTags EXCEPT !.param = <<<<"i","d">>>>, !.validate = <<cRequired>>]) >>),
    ParamsIDN |-> Struct(<<>>, << Fld(<<"I","D">>, "string", [NoTags EXCEPT !.param = <<<<"i","d">>, cRequired>>]), Fld(<<"N">>, "int", [NoTags EXCEPT !.param = <<<<"n">>>>, !.default = <<<<"5">>>>]) >>),
    ParamsN |-> Struct(<<>>, << Fld(<<"N">>, "int", [NoTags EXCEPT !.binding = <<cRequired>>]) >>),
    QueryLimit |-> Struct(<<>>, << Fld(<<"L","i","m","i","t">>, "int", [NoTags EXCEPT !.query = <<<<"l","i","m","i","t">>>>, !.default = <<<<"1","0">>>>]) >>),
    QueryQLimit |-> Struct(<<>>, << Fld(<<"Q">>, "string", [NoTags EXCEPT !.query = <<<<"q">>, cRequired>>]), Fld(<<"L","i","m","i","t">>, "int", [NoTags EXCEPT !.default = <<<<"1","0">>>>, !.validate = <<<<"min=","1">>>>]) >>),
    BodyName |-> Struct(<<>>, << Fld(<<"N","a","m","e">>, "string", [NoTags EXCEPT !.json = <<<<"n","a","m","e">>>>, !.validate = <<cRequired>>]) >>),
    BodyAge |-> Struct(<<>>, << Fld(<<"A","g","e">>, "int", [NoTags EXCEPT !.json = <<<<"a","g","e">>, cRequired>>]) >>),
    BodyEmail |-> Struct(<<>>, << Fld(<<"E","m","a","i","l">>, "string", [NoTags EXCEPT !.json = <<<<"e","m","a","i","l">>>>, !.binding = <<cRequired>>]), Fld(<<"A","g","e">>, "int", [NoTags EXCEPT !.json = <<<<"a","g","e">>>>]) >>),
    ItemSchema |-> Struct(<<"ItemSchema">>, << Fld(cParams, "ParamsID", NoTags), Fld(cQuery, "QueryLimit", NoTags) >>),
    UpdateSchema |-> Struct(<<"UpdateSchema">>, << Fld(cBody, "BodyName", NoTags), Fld(cQuery, "QueryQLimit", NoTags), Fld(cParams, "ParamsIDN", NoTags) >>),
    CreateSchema |-> Struct(<<"CreateSchema">>, << Fld(cParams, "ParamsN", NoTags), Fld(cBody, "BodyAge", NoTags) >>),
    SignupSchema |-> Struct(<<"SignupSchema">>, << Fld(cQuery, "QueryLimit", NoTags), Fld(cBody, "BodyEmail", NoTags) >>),
    ListSchema |-> Struct(<<"ListSchema">>, << Fld(<<"P","a","g","e">>, "int", [NoTags EXCEPT !.json = <<<<"p","a","g","e">>>>, !.default = <<<<"1">>>>]), Fld(cQuery, "QueryLimit", NoTags) >>),
    PostSearchSchema |-> Struct(<<"PostSearchSchema">>, << Fld(cQuery, "string", [NoTags EXCEPT !.json = <<ToLower(cQuery)>>, !.validate = <<cRequired>>]) >>),
    BodyNote |-> Struct(<<>>, << Fld(<<"N","a","m","e">>, "string", [NoTags EXCEPT !.json = <<<<"n","a","m","e">>>>]) >>),
    NoteSchema |-> Struct(<<"NoteSchema">>, << Fld(cBody, "BodyNote", NoTags) >>) ]

RequestSchemas == {"ItemSchema", "UpdateSchema", "CreateSchema", "SignupSchema", "ListSchema", "PostSearchSchema",
                   "NoteSchema"}

(***************************************************************************)
(* Types used as response types and as request bodies by the document      *)
(* generator.  A type name is one atom; no type below is named like a name  *)
(* the generator synthesizes.                                              *)
(***************************************************************************)
cDash     == <<"-">>

JsonTag(n) == [NoTags EXCEPT !.json = <<ToLower(n)>>]

\* In Go:
\*   SearchResponse { Page struct { Current int; Total int }; Results []struct { ID string; Title string } }
\*     (docs: "Anonymous Struct Naming"; every field has a json tag with its lower-case name)
\*   Node  { Value string; Children []Node }
\*   Table { Rows []struct { Cells []struct { Value string } } }
\*   User  { Name string `json:"name" validate:"required,min=2"`; Age uint; Secret string `json:"-"` }
\*   BodyUser struct { Name string `json:"name" validate:"required"`; Email string }
\*   BodyItem struct { Title string }
\*   BodyMeta struct { Meta *struct { K string } }
\*   CreateUserSchema { Body BodyUser }     CreateItemSchema { Body BodyItem }
\*   PatchSchema { Params ParamsID; Body BodyMeta }     PutUserSchema { Params ParamsID; Body User }
\*   FilterSchema { Tags []string; Owner User; Parent *User; Items []User; Limit *int }
\*     (every field has a json tag with its lower-case name)
DocTypes ==
  [ uint |-> Prim("uint"), float |-> Prim("float"),
    PageAnon |-> Struct(<<>>, << Fld(<<"C","u","r","r","e","n","t">>, "int", JsonTag(<<"C","u","r","r","e","n","t">>)), Fld(<<"T","o","t","a","l">>, "int", JsonTag(<<"T","o","t","a","l">>)) >>),
    ResultAnon |-> Struct(<<>>, << Fld(<<"I","D">>, "string", JsonTag(<<"I","D">>)), Fld(<<"T","i","t","l","e">>, "string", JsonTag(<<"T","i","t","l","e">>)) >>), ResultAnonSlice |-> SliceOf("ResultAnon"),
    SearchResponse |-> Struct(<<"SearchResponse">>, << Fld(<<"P","a","g","e">>, "PageAnon", JsonTag(<<"P","a","g","e">>)), Fld(<<"R","e","s","u","l","t","s">>, "ResultAnonSlice", JsonTag(<<"R","e","s","u","l","t","s">>)) >>),
    Node |-> Struct(<<"Node">>, << Fld(<<"V","a","l","u","e">>, "string", JsonTag(<<"V","a","l","u","e">>)), Fld(<<"C","h","i","l","d","r","e","n">>, "NodeSlice", JsonTag(<<"C","h","i","l","d","r","e","n">>)) >>), NodeSlice |-> SliceOf("Node"),
    CellAnon |-> Struct(<<>>, << Fld(<<"V","a","l","u","e">>, "string", JsonTag(<<"V","a","l","u","e">>)) >>), CellAnonSlice |-> SliceOf("CellAnon"),
    RowAnon |-> Struct(<<>>, << Fld(<<"C","e","l","l","s">>, "CellAnonSlice", JsonTag(<<"C","e","l","l","s">>)) >>), RowAnonSlice |-> SliceOf("RowAnon"),
    Table |-> Struct(<<"Table">>, << Fld(<<"R","o","w","s">>, "RowAnonSlice", JsonTag(<<"R","o","w","s">>)) >>),
    User |-> Struct(<<"User">>, << Fld(<<"N","a","m","e">>, "string", [NoTags EXCEPT !.json = <<<<"n","a","m","e">>>>, !.validate = <<cRequired, <<"min=","2">>>>]), Fld(<<"A","g","e">>, "uint", JsonTag(<<"A","g","e">>)), Fld(<<"S","e","c","r","e","t">>, "string", [NoTags EXCEPT !.json = <<cDash>>]) >>), UserSlice |-> SliceOf("User"), UserPtr |-> PtrTo("User"),
    BodyUser |-> Struct(<<>>, << Fld(<<"N","a","m","e">>, "string", [NoTags EXCEPT !.json = <<<<"n","a","m","e">>>>, !.validate = <<cRequired>>]), Fld(<<"E","m","a","i","l">>, "string", JsonTag(<<"E","m","a","i","l">>)) >>),
    BodyItem |-> Struct(<<>>, << Fld(<<"T","i","t","l","e">>, "string", JsonTag(<<"T","i","t","l","e">>)) >>),
    MetaAnon |-> Struct(<<>>, << Fld(<<"K">>, "string", JsonTag(<<"K">>)) >>), MetaAnonPtr |-> PtrTo("MetaAnon"),
    BodyMeta |-> Struct(<<>>, << Fld(<<"M","e","t","a">>, "MetaAnonPtr", JsonTag(<<"M","e","t","a">>)) >>),
    CreateUserSchema |-> Struct(<<"CreateUserSchema">>, << Fld(cBody, "BodyUser", NoTags) >>),
    CreateItemSchema |-> Struct(<<"CreateItemSchema">>, << Fld(cBody, "BodyItem", NoTags) >>),
    PatchSchema |-> Struct(<<"PatchSchema">>, << Fld(cParams, "ParamsID", NoTags), Fld(cBody, "BodyMeta", NoTags) >>),
    PutUserSchema |-> Struct(<<"PutUserSchema">>, << Fld(cParams, "ParamsID", NoTags), Fld(cBody, "User", NoTags) >>),
    StringSlice |-> SliceOf("string"), IntPtr |-> PtrTo("int"),
    FilterSchema |-> Struct(<<"FilterSchema">>, << Fld(<<"T","a","g","s">>, "StringSlice", JsonTag(<<"T","a","g","s">>)), Fld(<<"O","w","n","e","r">>, "User", JsonTag(<<"O","w","n","e","r">>)), Fld(<<"P","a","r","e","n","t">>, "UserPtr", JsonTag(<<"P","a","r","e","n","t">>)), Fld(<<"I","t","e","m","s">>, "UserSlice", JsonTag(<<"I","t","e","m","s">>)), Fld(<<"L","i","m","i","t">>, "IntPtr", JsonTag(<<"L","i","m","i","t">>)) >>) ]

Types == RequestTypes @@ DocTypes

\* the type descriptors as the running program holds them (reflect's type data);
\* no operation changes them
VARIABLE rtypes

\* the reflect.Type with identifier id
TypeOf(id) == rtypes[id]

(***************************************************************************)
(* Tag helpers (schema.go)                                                 *)
(***************************************************************************)
\* field.Tag.Get(key): the raw tag text
RawTag(parts) == JoinWith(parts, <<",">>)

\* getTagValue: the first comma-separated part, "" when the tag is absent
getTagValue(field, tagName) ==
  IF RawTag(field.tags[tagName]) = <<>> THEN <<>> ELSE field.tags[tagName][1]

\* isRequired: "required" occurs in the validate, binding, query, param or json tag
isRequired(field) ==
  \E tagName \in {"validate", "binding", "query", "param", "json"} :
     StrContains(RawTag(field.tags[tagName]), cRequired)

\* hasRequiredFields
hasRequiredFields(t) == \E i \in 1..Len(t.fields) : isRequired(t.fields[i])

(***************************************************************************)
(* Values (reflect.Value): one shape for every kind, f holds the fields of *)
(* a struct value in declaration order.                                    *)
(***************************************************************************)
RECURSIVE Zero(_)
Zero(id) ==
  LET t == TypeOf(id) IN
  [k |-> t.kind, s |-> <<>>, i |-> 0, b |-> FALSE,
   f |-> [j \in 1..Len(t.fields) |-> Zero(t.fields[j].type)]]

IsZero(v) == v.s = <<>> /\ v.i = 0 /\ v.b = FALSE /\ v.k # "struct"

Digits == <<"0","1","2","3","4","5","6","7","8","9">>
IsDigit(c) == \E d \in 1..10 : Digits[d] = c
DigitVal(c) == (CHOOSE d \in 1..10 : Digits[d] = c) - 1

RECURSIVE DecVal(_)
DecVal(ds) == IF Len(ds) = 0 THEN 0 ELSE 10 * DecVal(SubSeq(ds, 1, Len(ds) - 1)) + DigitVal(ds[Len(ds)])

\* strconv.ParseInt(value, 10, 64): optional sign, then one or more digits
ParseInt(value) ==
  LET signed == Len(value) > 0 /\ value[1] \in {"+", "-"}
      ds     == IF signed THEN Tail(value) ELSE value
      ok     == Len(ds) > 0 /\ \A j \in 1..Len(ds) : IsDigit(ds[j])
  IN IF ok
     THEN [err |-> Nil, val |-> IF signed /\ value[1] = "-" THEN 0 - DecVal(ds) ELSE DecVal(ds)]
     ELSE [err |-> PlainErr(<<"strconv.ParseInt", ":", "parsing", "\"">> \o value \o <<"\"", ":", "invalid", "syntax">>),
           val |-> 0]

\* strconv.ParseBool
ParseBool(value) ==
  IF value \in ({ <<"1">>, <<"t">>, <<"T">>, <<"T","R","U","E">>, <<"t","r","u","e">>, <<"T","r","u","e">> }) THEN [err |-> Nil, val |-> TRUE]
  ELSE IF value \in ({ <<"0">>, <<"f">>, <<"F">>, <<"F","A","L","S","E">>, <<"f","a","l","s","e">>, <<"F","a","l","s","e">> }) THEN [err |-> Nil, val |-> FALSE]
  ELSE [err |-> PlainErr(<<"strconv.ParseBool", ":", "parsing", "\"">> \o value \o <<"\"", ":", "invalid", "syntax">>),
        val |-> FALSE]

\* setFieldValue: the converted value, or the conversion error
setFieldValue(field, value) ==
  CASE field.k = "string" -> [err |-> Nil, val |-> [field EXCEPT !.s = value]]
    [] field.k = "int" ->
         LET r == ParseInt(value) IN
         IF ~r.err.nil THEN [err |-> r.err, val |-> field]
         ELSE [err |-> Nil, val |-> [field EXCEPT !.i = r.val]]
    [] field.k = "bool" ->
         LET r == ParseBool(value) IN
         IF ~r.err.nil THEN [err |-> r.err, val |-> field]
         ELSE [err |-> Nil, val |-> [field EXCEPT !.b = r.val]]
    [] OTHER -> [err |-> PlainErr(<<"unsupported", "field", "type", ":", field.k>>), val |-> field]

(***************************************************************************)
(* The request: gin.Context.  params and query map a name to its raw       *)
(* value; body is the request body.                                        *)
(***************************************************************************)
\* c.Param / c.Query: "" when the name is absent
Lookup(m, name) == IF name \in DOMAIN m THEN m[name] ELSE <<>>

RECURSIVE parseParamsFrom(_, _, _, _)
\* the loop of parseParams from field i on; v is the Params value so far
parseParamsFrom(c, t, v, i) ==
  IF i > Len(t.fields) THEN [err |-> Nil, val |-> v]
  ELSE
    LET typeField  == t.fields[i]
        paramName  == IF getTagValue(typeField, "param") = <<>> THEN ToLower(typeField.name)
                      ELSE getTagValue(typeField, "param")
        paramValue == Lookup(c.params, paramName)
    IN IF paramValue = <<>>
       THEN IF isRequired(typeField)
            THEN [err |-> PlainErr(<<"required", "param">> \o Quote(paramName) \o <<"is", "missing">>), val |-> v]
            ELSE parseParamsFrom(c, t, v, i + 1)
       ELSE LET r == setFieldValue(v.f[i], paramValue) IN
            IF ~r.err.nil
            THEN [err |-> Wrap(<<"invalid", "param">> \o Quote(paramName), r.err), val |-> v]
            ELSE parseParamsFrom(c, t, [v EXCEPT !.f[i] = r.val], i + 1)

\* parseParams
parseParams(c, t, v) == parseParamsFrom(c, t, v, 1)

RECURSIVE parseQueryFrom(_, _, _, _)
\* the loop of parseQuery from field i on
parseQueryFrom(c, t, v, i) ==
  IF i > Len(t.fields) THEN [err |-> Nil, val |-> v]
  ELSE
    LET typeField  == t.fields[i]
        tagName    == IF getTagValue(typeField, "query") = <<>> THEN typeField.name
                      ELSE getTagValue(typeField, "query")
        byTag      == Lookup(c.query, tagName)
        byName     == Lookup(c.query, typeField.name)
        byLower    == Lookup(c.query, ToLower(typeField.name))
        queryValue == IF byTag # <<>> THEN byTag ELSE IF byName # <<>> THEN byName ELSE byLower
        queryName  == IF byTag # <<>> THEN tagName
                      ELSE IF byName # <<>> THEN typeField.name
                      ELSE IF byLower # <<>> THEN ToLower(typeField.name) ELSE tagName
        defaultVal == getTagValue(typeField, "default")
        useValue   == IF queryValue # <<>> THEN queryValue ELSE defaultVal
    IN IF queryValue = <<>> /\ defaultVal = <<>>
       THEN IF isRequired(typeField)
            THEN [err |-> PlainErr(<<"required", "query", "param">> \o Quote(queryName) \o <<"is", "missing">>), val |-> v]
            ELSE parseQueryFrom(c, t, v, i + 1)
       ELSE LET r == setFieldValue(v.f[i], useValue) IN
            IF ~r.err.nil
            THEN [err |-> Wrap(<<"invalid", "query", "param">> \o Quote(queryName), r.err), val |-> v]
            ELSE parseQueryFrom(c, t, [v EXCEPT !.f[i] = r.val], i + 1)

\* parseQuery
parseQuery(c, t, v) == parseQueryFrom(c, t, v, 1)

(***************************************************************************)
(* Struct validation (go-playground/validator, used by validate.Struct     *)
(* with the tag "validate" and by gin's ShouldBindJSON with the tag        *)
(* "binding"): every field with rules yields at most one field error, the  *)
(* first failing rule; struct fields are descended into.                   *)
(***************************************************************************)
RuleName(part) == IF part = cRequired THEN cRequired ELSE <<"min">>

RuleHolds(part, v) ==
  IF part = cRequired THEN ~IsZero(v)
  ELSE IF Len(part) > 1 /\ part[1] = "min="
       THEN IF v.k = "string" THEN Len(v.s) >= DecVal(Tail(part)) ELSE v.i >= DecVal(Tail(part))
       ELSE TRUE

FieldError(ns, name, part) ==
  <<"Key", ":">> \o Quote(ns \o <<".">> \o name) \o <<"Error:Field", "validation", "for">> \o Quote(name)
     \o <<"failed", "on", "the">> \o Quote(RuleName(part)) \o <<"tag">>

RECURSIVE StructErrors(_, _, _, _)
\* the field errors of struct value v of type t, in field order
StructErrors(t, v, tagName, ns) ==
  LET OfField(i) ==
        LET field  == t.fields[i]
            rules  == field.tags[tagName]
            failed == { r \in 1..Len(rules) : ~RuleHolds(rules[r], v.f[i]) }
        IN IF failed # {}
           THEN << FieldError(ns, field.name, rules[CHOOSE r \in failed : \A q \in failed : r <= q]) >>
           ELSE IF TypeOf(field.type).kind = "struct"
                THEN StructErrors(TypeOf(field.type), v.f[i], tagName, ns \o <<".">> \o field.name)
                ELSE <<>>
      Upto[i \in 0..Len(t.fields)] == IF i = 0 THEN <<>> ELSE Upto[i - 1] \o OfField(i)
  IN Upto[Len(t.fields)]

\* ValidationErrors.Error(): the field errors joined by newlines; nil when there is none
ValidationError(errs) == IF errs = <<>> THEN Nil ELSE PlainErr(JoinWith(errs, <<"\n">>))

(***************************************************************************)
(* JSON body.  present: ContentLength # 0; valid: the text parses as a     *)
(* JSON object; obj: its members; empty: the body has no bytes (with       *)
(* ContentLength 0, or with ContentLength -1 on a chunked request).        *)
(***************************************************************************)
JStr(x)  == [t |-> "string", s |-> x, i |-> 0]
JNum(n)  == [t |-> "number", s |-> <<>>, i |-> n]

\* the member of obj that encoding/json binds to a field: its json name, case-insensitively
JSONKey(field) == IF getTagValue(field, "json") = <<>> THEN field.name ELSE getTagValue(field, "json")
Member(obj, field) == { k \in DOMAIN obj : ToLower(k) = ToLower(JSONKey(field)) }

RECURSIVE decodeFrom(_, _, _, _)
\* json.Decoder.Decode into the struct value v, from field i on
decodeFrom(obj, t, v, i) ==
  IF i > Len(t.fields) THEN [err |-> Nil, val |-> v]
  ELSE
    LET field == t.fields[i]
        ks    == Member(obj, field)
    IN IF ks = {} THEN decodeFrom(obj, t, v, i + 1)
       ELSE LET jv == obj[CHOOSE k \in ks : TRUE]
                fits == (v.f[i].k = "string" /\ jv.t = "string") \/ (v.f[i].k = "int" /\ jv.t = "number")
            IN IF ~fits
               THEN [err |-> PlainErr(<<"json", ":", "cannot", "unmarshal", jv.t, "into", "Go", "struct", "field">>
                                        \o JSONKey(field) \o <<"of", "type", v.f[i].k>>), val |-> v]
               ELSE decodeFrom(obj, t, [v EXCEPT !.f[i] = [@ EXCEPT !.s = jv.s, !.i = jv.i]], i + 1)

\* c.ShouldBindJSON: decode, then validate the "binding" rules
ShouldBindJSON(c, t, v) ==
  IF c.body.empty
  THEN [err |-> PlainErr(<<"EOF">>), val |-> v]
  ELSE IF ~c.body.valid
  THEN [err |-> PlainErr(<<"invalid", "character", "looking", "for", "beginning", "of", "value">>), val |-> v]
  ELSE LET d == decodeFrom(c.body.obj, t, v, 1) IN
       IF ~d.err.nil THEN d
       ELSE [err |-> ValidationError(StructErrors(t, d.val, "binding", <<>>)), val |-> d.val]

\* parseBody
parseBody(c, t, v) ==
  IF ~c.body.present
  THEN IF hasRequiredFields(t)
       THEN [err |-> PlainErr(<<"request", "body", "is", "required">>), val |-> v]
       ELSE [err |-> Nil, val |-> v]
  ELSE LET r == ShouldBindJSON(c, t, v) IN
       IF ~r.err.nil THEN [err |-> Wrap(<<"invalid", "JSON", "body">>, r.err), val |-> v]
       ELSE [err |-> Nil, val |-> r.val]

(***************************************************************************)
(* Error mapping (schema.go)                                               *)
(***************************************************************************)
\* NotOk
NotOk(code, message) == [code |-> code, message |-> message]

\* extractValidationMessage
extractValidationMessage(errMsg) ==
  LET i1 == StrIndex(errMsg, <<"validation", "failed", ":">>)
      i2 == StrIndex(errMsg, <<":">>)
  IN IF i1 # 0 THEN StrAfter(errMsg, i1, <<"validation", "failed", ":">>)
     ELSE IF i2 # 0 THEN StrAfter(errMsg, i2, <<":">>)
     ELSE errMsg

\* convertToErrorResult with the SchemaError check after the text matching
convertToErrorResultTextFirst(err) ==
  LET errMsg == ErrorText(err) IN
  IF StrContains(errMsg, <<"params", "validation", "failed">>)
       THEN NotOk(<<"ERR_INVALID_PARAMS">>, extractValidationMessage(errMsg))
  ELSE IF StrContains(errMsg, <<"query", "validation", "failed">>)
       THEN NotOk(<<"ERR_INVALID_QUERY">>, extractValidationMessage(errMsg))
  ELSE IF StrContains(errMsg, <<"body", "validation", "failed">>)
       THEN NotOk(<<"ERR_INVALID_BODY">>, extractValidationMessage(errMsg))
  ELSE IF StrContains(errMsg, <<"validation", "failed">>)
       THEN NotOk(<<"ERR_VALIDATION_FAILED">>, extractValidationMessage(errMsg))
  ELSE IF err.kind = "SchemaError" THEN NotOk(err.code, err.msg)
  ELSE NotOk(<<"ERR_NOT_SPECIFIED">>, <<"An", "unknown", "exception", "occurred">>)

\* convertToErrorResult
convertToErrorResult(err) ==
  LET errMsg == ErrorText(err) IN
  IF err.kind = "SchemaError" THEN NotOk(err.code, err.msg)
  ELSE IF StrContains(errMsg, <<"params", "validation", "failed">>)
       THEN NotOk(<<"ERR_INVALID_PARAMS">>, extractValidationMessage(errMsg))
  ELSE IF StrContains(errMsg, <<"query", "validation", "failed">>)
       THEN NotOk(<<"ERR_INVALID_QUERY">>, extractValidationMessage(errMsg))
  ELSE IF StrContains(errMsg, <<"body", "validation", "failed">>)
       THEN NotOk(<<"ERR_INVALID_BODY">>, extractValidationMessage(errMsg))
  ELSE IF StrContains(errMsg, <<"validation", "failed">>)
       THEN NotOk(<<"ERR_VALIDATION_FAILED">>, extractValidationMessage(errMsg))
  ELSE IF StrContains(errMsg, <<"required">>) /\ StrContains(errMsg, <<"missing">>)
       THEN NotOk(<<"ERR_MISSING_REQUIRED">>, errMsg)
  ELSE IF StrContains(errMsg, <<"invalid", "JSON">>)
       THEN NotOk(<<"ERR_INVALID_JSON">>, <<"Request", "body", "contains", "invalid", "JSON">>)
  ELSE NotOk(<<"ERR_NOT_SPECIFIED">>, <<"An", "unknown", "exception", "occurred">>)

(***************************************************************************)
(* Document generator: schema nodes (JSONSchema).  items holds zero or one *)
(* node, properties maps a JSON name to a node; the optional numbers are   *)
(* kept as sequences of length zero or one.                                *)
(***************************************************************************)
NoProps == <<>>

\* newJSONSchema(schemaType, properties)
newJSONSchema(schemaType, properties) ==
  [type |-> schemaType, ref |-> <<>>, items |-> <<>>, properties |-> properties, required |-> <<>>,
   minimum |-> <<>>, maximum |-> <<>>, minLength |-> <<>>, maxLength |-> <<>>, format |-> <<>>,
   default |-> <<>>]

\* &JSONSchema{Ref: "#/components/schemas/" + schemaName}
RefTo(schemaName) == [newJSONSchema("", NoProps) EXCEPT !.ref = <<"#/components/schemas/">> \o schemaName]

\* m[k] = v on a Go map
Put(m, k, v) == [x \in (DOMAIN m) \cup {k} |-> IF x = k THEN v ELSE m[x]]

\* getJSONFieldName
getJSONFieldName(field) ==
  IF RawTag(field.tags.json) = <<>> \/ field.tags.json[1] = <<>> THEN ToLower(field.name)
  ELSE field.tags.json[1]

\* field.IsExported(): the name starts with an upper-case letter
IsExported(field) == \E i \in 1..26 : Upper[i] = field.name[1]

RECURSIVE ApplyConstraints(_, _)
\* the loop of addValidationConstraints over the parts of the validate tag
ApplyConstraints(node, parts) ==
  IF parts = <<>> THEN node
  ELSE LET constraint == parts[1]
           arg  == <<DecVal(Tail(constraint))>>
           next == IF Len(constraint) > 1 /\ constraint[1] = "min="
                   THEN IF node.type = "string" THEN [node EXCEPT !.minLength = arg] ELSE [node EXCEPT !.minimum = arg]
                   ELSE IF Len(constraint) > 1 /\ constraint[1] = "max="
                   THEN IF node.type = "string" THEN [node EXCEPT !.maxLength = arg] ELSE [node EXCEPT !.maximum = arg]
                   ELSE IF constraint = <<"email">> THEN [node EXCEPT !.format = <<"email">>]
                   ELSE node
       IN ApplyConstraints(next, Tail(parts))

\* addValidationConstraints
addValidationConstraints(node, field) == ApplyConstraints(node, field.tags.validate)

\* parseDefaultValue: the typed default, the text itself when it does not convert
parseDefaultValue(defaultVal, fieldType) ==
  IF fieldType.kind = "int" /\ ParseInt(defaultVal).err.nil
  THEN <<[k |-> "int", i |-> ParseInt(defaultVal).val, s |-> <<>>, b |-> FALSE]>>
  ELSE IF fieldType.kind = "bool" /\ ParseBool(defaultVal).err.nil
  THEN <<[k |-> "bool", i |-> 0, s |-> <<>>, b |-> ParseBool(defaultVal).val]>>
  ELSE <<[k |-> "string", i |-> 0, s |-> defaultVal, b |-> FALSE]>>

PrimitiveKinds == {"string", "int", "uint", "float", "bool"}

\* a mutation of isQueryParameter without the tests that reject structs
isQueryParameterAnyKind(field) ==
  TypeOf(field.type).kind \in PrimitiveKinds \cup {"struct", "slice", "ptr"}

\* isQueryParameter
isQueryParameter(field) ==
  LET t == TypeOf(field.type) IN
  IF t.kind = "struct" \/ (t.kind = "ptr" /\ TypeOf(t.elem).kind = "struct") THEN FALSE
  ELSE IF t.kind = "slice" /\ TypeOf(t.elem).kind = "struct" THEN FALSE
  ELSE IF t.kind \in PrimitiveKinds THEN TRUE
  ELSE IF t.kind \in {"slice", "ptr"} THEN TypeOf(t.elem).kind \in PrimitiveKinds
  ELSE FALSE

\* getQueryParameterName
getQueryParameterName(field) ==
  IF getTagValue(field, "query") # <<>> THEN getTagValue(field, "query")
  ELSE IF getJSONFieldName(field) # <<>> /\ getJSONFieldName(field) # cDash THEN getJSONFieldName(field)
  ELSE ToLower(field.name)

\* if t.Kind() == reflect.Ptr { t = t.Elem() }
Deref(id) == IF TypeOf(id).kind = "ptr" THEN TypeOf(id).elem ELSE id

\* a Parameter before its schema node is generated: origin is the place of the
\* field in the schema type, <<i>> or <<i, j>>
Param(name, in, required, field, origin) ==
  [name |-> name, in |-> in, required |-> required, type |-> field.type,
   default |-> getTagValue(field, "default"), origin |-> origin]

\* extractPathParameters
extractPathParameters(paramType, i) ==
  LET t == TypeOf(Deref(paramType)) IN
  IF t.kind # "struct" THEN <<>>
  ELSE [j \in 1..Len(t.fields) |->
          Param(IF getTagValue(t.fields[j], "param") = <<>> THEN ToLower(t.fields[j].name)
                ELSE getTagValue(t.fields[j], "param"),
                "path", TRUE, t.fields[j], <<i, j>>)]

\* extractQueryParameters
extractQueryParameters(queryType, i) ==
  LET t == TypeOf(Deref(queryType)) IN
  IF t.kind # "struct" THEN <<>>
  ELSE [j \in 1..Len(t.fields) |->
          Param(IF getTagValue(t.fields[j], "query") = <<>> THEN ToLower(t.fields[j].name)
                ELSE getTagValue(t.fields[j], "query"),
                "query", isRequired(t.fields[j]), t.fields[j], <<i, j>>)]

\* extractParameters: the parameters of one schema type, in field order
extractParameters(schemaTypeId) ==
  LET t == TypeOf(Deref(schemaTypeId))
      OfField(i) ==
        LET field == t.fields[i] IN
        IF ToLower(field.name) = <<"p","a","r","a","m","s">> THEN extractPathParameters(field.type, i)
        ELSE IF ToLower(field.name) = <<"q","u","e","r","y">> THEN extractQueryParameters(field.type, i)
        ELSE IF getTagValue(field, "query") # <<>>
             THEN << Param(getTagValue(field, "query"), "query", isRequired(field), field, <<i>>) >>
        ELSE IF isQueryParameter(field)
             THEN << Param(getQueryParameterName(field), "query", isRequired(field), field, <<i>>) >>
        ELSE <<>>
      Upto[i \in 0..Len(t.fields)] == IF i = 0 THEN <<>> ELSE Upto[i - 1] \o OfField(i)
  IN IF t.kind # "struct" THEN <<>> ELSE Upto[Len(t.fields)]

\* extractRequestBody: the first field named body, as a sequence of zero or one field
BodyField(schemaTypeId) ==
  LET t == TypeOf(Deref(schemaTypeId))
      bodies == IF t.kind # "struct" THEN {}
                ELSE { i \in 1..Len(t.fields) : ToLower(t.fields[i].name) = <<"b","o","d","y">> }
  IN IF bodies = {} THEN <<>> ELSE << t.fields[CHOOSE i \in bodies : \A j \in bodies : i <= j] >>

\* schemaName of generateStructSchemaWithContext
SchemaNameOf(t, contextName) ==
  IF t.name # <<>> THEN t.name
  ELSE IF contextName # <<>> THEN contextName
  ELSE <<"AnonymousStruct">>

\* a mutation of FieldContextName that leaves the parent's name out
FieldContextNameBare(schemaName, contextName, field) ==
  IF TypeOf(field.type).kind = "struct" /\ TypeOf(field.type).name = <<>>
  THEN <<UpperCh(getJSONFieldName(field)[1])>> \o Tail(getJSONFieldName(field))
  ELSE <<>>

\* fieldContextName of generateStructSchemaWithContext
FieldContextName(schemaName, contextName, field) ==
  IF TypeOf(field.type).kind = "struct" /\ TypeOf(field.type).name = <<>>
  THEN LET parentName == IF schemaName = <<"AnonymousStruct">> THEN contextName ELSE schemaName
           jsonName   == getJSONFieldName(field)
       IN parentName \o <<UpperCh(jsonName[1])>> \o Tail(jsonName)
  ELSE <<>>

RECURSIVE Reach(_, _)
\* generateJSONSchemaFromTypeWithContext up to the struct it reaches: the number of
\* array layers around the result, and either a finished node or the struct type
\* and context name that generateStructSchemaWithContext is called with
Reach(id, contextName) ==
  LET t == TypeOf(Deref(id)) IN
  CASE t.kind = "string" -> [layers |-> 0, struct |-> FALSE, node |-> newJSONSchema("string", NoProps), type |-> "", ctx |-> <<>>]
    [] t.kind = "int"    -> [layers |-> 0, struct |-> FALSE, node |-> newJSONSchema("integer", NoProps), type |-> "", ctx |-> <<>>]
    [] t.kind = "uint"   -> [layers |-> 0, struct |-> FALSE,
                             node |-> [newJSONSchema("integer", NoProps) EXCEPT !.minimum = <<0>>], type |-> "", ctx |-> <<>>]
    [] t.kind = "float"  -> [layers |-> 0, struct |-> FALSE, node |-> newJSONSchema("number", NoProps), type |-> "", ctx |-> <<>>]
    [] t.kind = "bool"   -> [layers |-> 0, struct |-> FALSE, node |-> newJSONSchema("boolean", NoProps), type |-> "", ctx |-> <<>>]
    [] t.kind = "slice"  -> LET r == Reach(t.elem, contextName \o <<"Item">>) IN [r EXCEPT !.layers = @ + 1]
    [] t.kind = "struct" -> [layers |-> 0, struct |-> TRUE, node |-> newJSONSchema("", NoProps), type |-> Deref(id), ctx |-> contextName]
    [] OTHER             -> [layers |-> 0, struct |-> FALSE, node |-> newJSONSchema("object", NoProps), type |-> "", ctx |-> <<>>]

RECURSIVE InArrays(_, _)
\* the "array" nodes generateJSONSchemaFromTypeWithContext puts around an element node
InArrays(node, layers) ==
  IF layers = 0 THEN node
  ELSE [newJSONSchema("array", NoProps) EXCEPT !.items = <<InArrays(node, layers - 1)>>]

(***************************************************************************)
(* Inputs of one request: the request itself and what the user's handler   *)
(* returns when it is called.                                              *)
(***************************************************************************)

NoValues == <<>>

ParamChoices ==
  { NoValues,
    <<"i","d">> :> <<"4","2">>,
    <<"n">> :> <<"7">>,
    <<"n">> :> <<"a","b","c">>,
    (<<"i","d">> :> <<"4","2">>) @@ (<<"n">> :> <<"7">>),
    (<<"i","d">> :> <<"4","2">>) @@ (<<"n">> :> <<"a","b","c">>) }

QueryChoices ==
  { NoValues,
    <<"l","i","m","i","t">> :> <<"a","b","c">>,
    <<"l","i","m","i","t">> :> <<"3">>,
    <<"L","i","m","i","t">> :> <<"7">>,
    <<"q">> :> <<"g","o">>,
    (<<"q">> :> <<"g","o">>) @@ (<<"l","i","m","i","t">> :> <<"0">>),
    <<"p","a","g","e">> :> <<"3">>,
    ToLower(cQuery) :> <<"g","o">>,
    \* ?limit=params%20validation%20failed: a value that spells a phrase is written
    \* with the word atoms of the phrase
    <<"l","i","m","i","t">> :> <<"params", "validation", "failed">> }

NoBody  == [present |-> FALSE, valid |-> TRUE, obj |-> NoValues, empty |-> TRUE]
BadBody == [present |-> TRUE, valid |-> FALSE, obj |-> NoValues, empty |-> FALSE]
JSONBody(o) == [present |-> TRUE, valid |-> TRUE, obj |-> o, empty |-> FALSE]
\* a chunked request whose body has no bytes: ContentLength is -1
EmptyChunkedBody == [present |-> TRUE, valid |-> FALSE, obj |-> NoValues, empty |-> TRUE]

BodyChoices ==
  { NoBody, BadBody, EmptyChunkedBody, JSONBody(NoValues),
    JSONBody(<<"n","a","m","e">> :> JStr(<<"g","o">>)),
    JSONBody(<<"a","g","e">> :> JNum(7)),
    JSONBody(<<"a","g","e">> :> JStr(<<"a","b","c">>)),
    JSONBody((<<"e","m","a","i","l">> :> JStr(<<"a","b","c">>)) @@ (<<"a","g","e">> :> JNum(7))) }

Requests == [params : ParamChoices, query : QueryChoices, body : BodyChoices]

\* texts a handler may put into an error
UserCodes == { <<"SEARCH_FAILED">>, <<"ERR_INVALID_PARAMS">> }
UserTexts ==
  { <<"db", "down">>,
    <<"error", "searching", "documents", ":", "connection", "timeout">>,
    <<"user", "validation", "failed", ":", "secret">>,
    <<"params", "validation", "failed">>,
    <<"required", "column", "missing">>,
    <<"invalid", "JSON", "from", "upstream">> }

\* what handler(c, schema) returns: (*R, error)
HandlerReturns ==
       { [result |-> "value", err |-> Nil], [result |-> "nil", err |-> Nil] }
  \cup { [result |-> "nil", err |-> PlainErr(m)] : m \in UserTexts }
  \cup { [result |-> "nil", err |-> SchemaError(code, m)] : code \in UserCodes, m \in UserTexts }
  \cup { [result |-> "nil", err |-> ErrorResult(code, m)] : code \in UserCodes, m \in UserTexts }

(***************************************************************************)
(* Security schemes (security.go)                                          *)
(***************************************************************************)

\* the keys ValidateKey accepts and the tokens ValidateToken accepts
ValidKeys == { "k1" }
ValidTokens == { <<"t", "1">> }

\* The security schemes of the application, by the variable that holds them:
\*   apiKey   := NewAPIKeySecurity(APIKeyConfig{Name: "ApiKeyAuth", In: "header", KeyName: "X-API-Key", ValidateKey: ...})
\*   queryKey := NewAPIKeySecurity(APIKeyConfig{Name: "ApiKeyAuth", In: "query", KeyName: "api_key", ValidateKey: ...})
\*   bearer   := NewBearerSecurity(BearerConfig{Name: "BearerAuth", ValidateToken: ...})
\*   oauth    := &CustomOAuthSecurity{Name: "OAuthAuth"}       (docs/security.md)
\*   flexible := NewMultiSecurity("FlexibleAuth", apiKey, bearer)
\*   partner  := NewMultiSecurity("PartnerAuth", queryKey, oauth)
\*   any      := NewMultiSecurity("AnyAuth", flexible, queryKey)
AppSchemes ==
  [ apiKey   |-> [kind |-> "apiKey", Name |-> "ApiKeyAuth", In |-> "header", KeyName |-> "X-API-Key", Schemes |-> <<>>],
    queryKey |-> [kind |-> "apiKey", Name |-> "ApiKeyAuth", In |-> "query", KeyName |-> "api_key", Schemes |-> <<>>],
    bearer   |-> [kind |-> "bearer", Name |-> "BearerAuth", In |-> "", KeyName |-> "", Schemes |-> <<>>],
    oauth    |-> [kind |-> "custom", Name |-> "OAuthAuth", In |-> "", KeyName |-> "", Schemes |-> <<>>],
    flexible |-> [kind |-> "multi", Name |-> "FlexibleAuth", In |-> "", KeyName |-> "", Schemes |-> <<"apiKey", "bearer">>],
    partner  |-> [kind |-> "multi", Name |-> "PartnerAuth", In |-> "", KeyName |-> "", Schemes |-> <<"queryKey", "oauth">>],
    any      |-> [kind |-> "multi", Name |-> "AnyAuth", In |-> "", KeyName |-> "", Schemes |-> <<"flexible", "queryKey">>] ]

\* GetSecurityScheme of each implementation: the fragment stored under the scheme's name
GetSecurityScheme(s) ==
  CASE s.kind = "apiKey" -> [type |-> "apiKey", in |-> s.In, name |-> s.KeyName, scheme |-> "", description |-> ""]
    [] s.kind = "bearer" -> [type |-> "http", in |-> "", name |-> "", scheme |-> "bearer", description |-> ""]
    [] s.kind = "multi"  -> [type |-> "http", in |-> "", name |-> "", scheme |-> "",
                             description |-> "Multiple authentication methods accepted (any one will work)"]
    [] OTHER             -> [type |-> "oauth2", in |-> "", name |-> "", scheme |-> "", description |-> ""]

\* the requests an authentication middleware sees: the X-API-Key header, the api_key query
\* value and the Authorization header ("" and <<>> are the absent value)
AuthRequests ==
  [ header : { "", "k1", "zz" },
    query : { "", "k1" },
    authorization : { <<>>,
                      <<"B","e","a","r","e","r"," ","t","1">>,
                      <<"b","e","a","r","e","r"," ","t","1">>,
                      <<"B","e","a","r","e","r"," ","z","z">>,
                      <<"B","e","a","r","e","r"," ">>,
                      <<"B","a","s","i","c"," ","t","1">> } ]

\* the switch on In of APIKeySecurity.Middleware and tryAPIKey (cookies are not modelled)
KeyFrom(s, req) == IF s.In = "header" THEN req.header ELSE IF s.In = "query" THEN req.query ELSE ""

\* MultiSecurity.tryAPIKey: [ok, keys] with the context keys it sets
tryAPIKey(s, req) ==
  IF s.In \notin {"header", "query", "cookie"} THEN [ok |-> FALSE, keys |-> <<>>]
  ELSE IF KeyFrom(s, req) = "" THEN [ok |-> FALSE, keys |-> <<>>]
  ELSE IF KeyFrom(s, req) \notin ValidKeys THEN [ok |-> FALSE, keys |-> <<>>]
  ELSE [ok |-> TRUE, keys |-> ("api_key" :> KeyFrom(s, req)) @@ ("auth_method" :> "api_key")]

\* the "Bearer " prefix test shared by BearerSecurity.Middleware and tryBearer
HasBearerPrefix(authHeader) ==
  Len(authHeader) >= 7 /\ ToLower(SubSeq(authHeader, 1, 7)) = <<"b","e","a","r","e","r"," ">>

\* MultiSecurity.tryBearer
tryBearer(s, req) ==
  IF req.authorization = <<>> THEN [ok |-> FALSE, keys |-> <<>>]
  ELSE IF ~HasBearerPrefix(req.authorization) THEN [ok |-> FALSE, keys |-> <<>>]
  ELSE IF SubSeq(req.authorization, 8, Len(req.authorization)) = <<>> THEN [ok |-> FALSE, keys |-> <<>>]
  ELSE IF SubSeq(req.authorization, 8, Len(req.authorization)) \notin ValidTokens THEN [ok |-> FALSE, keys |-> <<>>]
  ELSE [ok |-> TRUE, keys |-> ("bearer_token" :> SubSeq(req.authorization, 8, Len(req.authorization)))
                              @@ ("auth_method" :> "bearer")]

\* MultiSecurity.tryScheme: the type switch with its default case
tryScheme(s, req) ==
  CASE s.kind = "apiKey" -> tryAPIKey(s, req)
    [] s.kind = "bearer" -> tryBearer(s, req)
    [] OTHER -> [ok |-> FALSE, keys |-> <<>>]

\* the handler of each Middleware(), run to its end: "next" when it calls c.Next(),
\* otherwise the status it aborts with
MiddlewareOutcome(s, req) ==
  CASE s.kind = "apiKey" ->
         IF s.In \notin {"header", "query", "cookie"} THEN "500"
         ELSE IF KeyFrom(s, req) = "" THEN "401"
         ELSE IF KeyFrom(s, req) \notin ValidKeys THEN "401"
         ELSE "next"
    [] s.kind = "bearer" ->
         IF req.authorization = <<>> THEN "401"
         ELSE IF ~HasBearerPrefix(req.authorization) THEN "401"
         ELSE IF SubSeq(req.authorization, 8, Len(req.authorization)) = <<>> THEN "401"
         ELSE IF SubSeq(req.authorization, 8, Len(req.authorization)) \notin ValidTokens THEN "401"
         ELSE "next"
    [] s.kind = "custom" ->
         IF req.authorization = <<>> THEN "401" ELSE "next"
    [] OTHER ->
         IF \E i \in 1..Len(s.Schemes) : tryScheme(AppSchemes[s.Schemes[i]], req).ok THEN "next" ELSE "401"

\* the authentication middleware of one route serving one request
VARIABLES authScheme, authReq, authPc, authIdx, authTried, authKeys

authVars == <<authScheme, authReq, authPc, authIdx, authTried, authKeys>>

AuthIdle ==
  /\ authScheme = "apiKey"
  /\ authReq = [header |-> "", query |-> "", authorization |-> <<>>]
  /\ authPc = "idle"
  /\ authIdx = 0
  /\ authTried = <<>>
  /\ authKeys = <<>>

(***************************************************************************)
(* Package-level state (wrapper.go, schema.go, security.go), the state of  *)
(* one router group, one inject.Container, and a suspended generation call *)
(***************************************************************************)
VARIABLES
  globalWrapper,           \* var globalWrapper ResponseWrapper
  typedHandlers,           \* var typedHandlers: "METHOD path" -> typed handler
  securitySchemeRegistry,  \* var securitySchemeRegistry: "METHOD path" -> []SecurityScheme
  middlewareRegistry,      \* var middlewareRegistry: code pointer -> SecurityScheme
  produced,                \* the schemes whose Middleware() has returned a handler
  groupSecuritySchemes,    \* rg.groupSecuritySchemes
  groupHandlers,           \* rg.RouterGroup.Handlers: the middleware passed to Use
  ginRoutes,               \* the routes gin has added, each with its handler chain
  services,                \* c.services of the container
  injResult,               \* what the last Resolve, GetNamed or GetAllNamed call returned
  parked                   \* the locals of a generateOpenAPISpec call that is not running

regVars == <<typedHandlers, securitySchemeRegistry, middlewareRegistry, produced,
             groupSecuritySchemes, groupHandlers, ginRoutes>>
extVars == <<globalWrapper, regVars, services, injResult, parked>>

\* nothing registered, no group middleware, an empty container, the default wrapper
ExtIdle ==
  /\ globalWrapper = "DefaultWrapper"
  /\ typedHandlers = <<>>
  /\ securitySchemeRegistry = <<>>
  /\ middlewareRegistry = <<>>
  /\ produced = {}
  /\ groupSecuritySchemes = <<>>
  /\ groupHandlers = <<>>
  /\ ginRoutes = <<>>
  /\ services = <<>>
  /\ injResult = [op |-> "none"]
  /\ parked = <<>>

(***************************************************************************)
(* State of one run of the gin handler built by ValidateAndHandle          *)
(***************************************************************************)
VARIABLES
  schemaType,   \* reflect.TypeOf(schema): the type T of the handler
  c,            \* the request
  schema,       \* var schema T: the instance being populated
  pc,           \* position in ginHandler / parseSchema
  fieldIdx,     \* loop index i of parseSchema's first pass (1-based)
  err,          \* the error parseSchema returned
  ret,          \* what the user's handler returned
  responses,    \* the c.JSON calls made, in order
  trace,        \* the passes run and the handler call, in order
  handlerInfos, \* extractHandlerInfos(routes): the registered operations, in route order
  gpc,          \* position in generateOpenAPISpec
  opIdx,        \* index into handlerInfos of the operation being generated
  roots,        \* the generateJSONSchemaFromType calls generateOperation still has to make
  operation,    \* the Operation being built
  stack,        \* the active calls of generateStructSchemaWithContext, innermost last
  schemas,      \* spec.Components.Schemas
  securitySchemes, \* spec.Components.SecuritySchemes
  paths,        \* spec.Paths
  docs          \* the documents the calls of generateOpenAPISpec have returned, in order

reqVars == <<schemaType, c, schema, pc, fieldIdx, err, ret, responses, trace, rtypes>>
genVars == <<handlerInfos, gpc, opIdx, roots, operation, stack, schemas, securitySchemes, paths, docs, rtypes>>
vars == <<schemaType, c, schema, pc, fieldIdx, err, ret, responses, trace,
          handlerInfos, gpc, opIdx, roots, operation, stack, schemas, securitySchemes, paths, docs, rtypes,
          authScheme, authReq, authPc, authIdx, authTried, authKeys,
          globalWrapper, typedHandlers, securitySchemeRegistry, middlewareRegistry, produced,
          groupSecuritySchemes, groupHandlers, ginRoutes, services, injResult, parked>>

NoReturn == [result |-> "none", err |-> Nil]
NoOperation == [method |-> "", path |-> <<>>, security |-> <<>>, parameters |-> <<>>, requestBody |-> <<>>, response |-> <<>>]

\* no document generation is running
GenIdle ==
  /\ rtypes = Types
  /\ handlerInfos = <<>>
  /\ gpc = "idle"
  /\ opIdx = 0
  /\ roots = <<>>
  /\ operation = NoOperation
  /\ stack = <<>>
  /\ schemas = NoProps
  /\ securitySchemes = NoProps
  /\ paths = NoProps
  /\ docs = <<>>

Init ==
  /\ GenIdle
  /\ AuthIdle
  /\ ExtIdle
  /\ schemaType \in RequestSchemas
  /\ c \in Requests
  /\ schema = Zero(schemaType)
  /\ pc = "assign"
  /\ fieldIdx = 1
  /\ err = Nil
  /\ ret = NoReturn
  /\ responses = <<>>
  /\ trace = <<>>

\* the field of parseSchema's loop: schemaValue.Field(i), schemaType.Field(i)
CurIdxReversed == Len(TypeOf(schemaType).fields) - fieldIdx + 1
CurIdx == fieldIdx
CurField == TypeOf(schemaType).fields[CurIdx]
InLoop == pc = "assign" /\ fieldIdx <= Len(TypeOf(schemaType).fields)
\* fieldName := strings.ToLower(fieldType.Name)
Location == ToLower(CurField.name)

\* the literals "params", "query", "body" of the switch, and the same words as they
\* stand in the error texts
pParams == <<"p","a","r","a","m","s">>
pQuery  == <<"q","u","e","r","y">>
pBody   == <<"b","o","d","y">>
LocWord(loc) == IF loc = pParams THEN <<"params">> ELSE IF loc = pQuery THEN <<"query">> ELSE <<"body">>

\* one iteration of the first pass on a field named loc: the parse function of the
\* switch is called on it; a parse function called on a field that is no struct panics
\* in field.NumField()
AssignStep(loc) ==
  /\ InLoop
  /\ Location = loc
  /\ trace' = Append(trace, loc)
  /\ IF TypeOf(CurField.type).kind # "struct"
     THEN /\ pc' = "panic"
          /\ UNCHANGED <<schema, fieldIdx, err>>
     ELSE LET t == TypeOf(CurField.type)
              v == schema.f[CurIdx]
              r == IF loc = pParams THEN parseParams(c, t, v)
                   ELSE IF loc = pQuery THEN parseQuery(c, t, v)
                   ELSE parseBody(c, t, v)
          IN
          IF ~r.err.nil
          THEN /\ err' = Wrap(LocWord(loc) \o <<"validation", "failed">>, r.err)
               /\ pc' = "failed"
               /\ UNCHANGED <<schema, fieldIdx>>
          ELSE /\ schema' = [schema EXCEPT !.f[CurIdx] = r.val]
               /\ fieldIdx' = fieldIdx + 1
               /\ UNCHANGED <<pc, err>>
  /\ UNCHANGED <<schemaType, c, ret, responses>>
  /\ UNCHANGED <<genVars, authVars, extVars>>

\* parseSchema, case "params"
AssignParams == AssignStep(pParams)

\* parseSchema, case "query"
AssignQuery == AssignStep(pQuery)

\* parseSchema, case "body"
AssignBody == AssignStep(pBody)

\* parseSchema: a field with any other name is left alone
AssignSkip ==
  /\ InLoop
  /\ Location \notin {pParams, pQuery, pBody}
  /\ fieldIdx' = fieldIdx + 1
  /\ UNCHANGED <<schemaType, c, schema, pc, err, ret, responses, trace>>
  /\ UNCHANGED <<genVars, authVars, extVars>>

\* Validate with the error of the second pass dropped
ValidateIgnoringErrors ==
  /\ pc = "assign"
  /\ fieldIdx > Len(TypeOf(schemaType).fields)
  /\ trace' = Append(trace, <<"validate">>)
  /\ LET e == ValidationError(StructErrors(TypeOf(schemaType), schema, "validate", TypeOf(schemaType).name)) IN
     err' = IF ~e.nil THEN Wrap(<<"validation", "failed">>, e) ELSE err
  /\ pc' = "handler"
  /\ UNCHANGED <<schemaType, c, schema, fieldIdx, ret, responses>>
  /\ UNCHANGED <<genVars, authVars, extVars>>

\* parseSchema, second pass: validate.Struct(schema)
Validate ==
  /\ pc = "assign"
  /\ fieldIdx > Len(TypeOf(schemaType).fields)
  /\ trace' = Append(trace, <<"validate">>)
  /\ LET e == ValidationError(StructErrors(TypeOf(schemaType), schema, "validate", TypeOf(schemaType).name)) IN
     IF ~e.nil
     THEN /\ err' = Wrap(<<"validation", "failed">>, e)
          /\ pc' = "failed"
     ELSE /\ pc' = "handler"
          /\ UNCHANGED err
  /\ UNCHANGED <<schemaType, c, schema, fieldIdx, ret, responses>>
  /\ UNCHANGED <<genVars, authVars, extVars>>

\* the wrappers an application configures (wrapper.go)
Wrappers == { "DefaultWrapper", "MinimalWrapper" }

\* SetResponseWrapper(wrapper)
SetResponseWrapper ==
  /\ \E wrapper \in Wrappers \ {globalWrapper} : globalWrapper' = wrapper
  /\ UNCHANGED <<reqVars, genVars, authVars, regVars, services, injResult, parked>>

\* A response as written by c.JSON(status, wrapped): the JSON members success, error.code,
\* error.message and data of the wrapped value; "absent" is a member the value lacks.
\* DefaultWrapper.WrapError / WrapSuccess
DefaultWrapError(status, code, message) ==
  [status |-> status, success |-> "false", code |-> code, message |-> message, data |-> "nil"]
DefaultWrapSuccess(status, data) ==
  [status |-> status, success |-> "true", code |-> <<>>, message |-> <<>>, data |-> data]

\* MinimalWrapper.WrapError / WrapSuccess
MinimalWrapError(status, code, message) ==
  [status |-> status, success |-> "absent", code |-> code, message |-> message, data |-> "absent"]
MinimalWrapSuccess(status, data) ==
  [status |-> status, success |-> "absent", code |-> <<>>, message |-> <<>>, data |-> data]

\* globalWrapper.WrapError(code, message) and globalWrapper.WrapSuccess(*result) in
\* ginHandler, written by c.JSON
WrapError(status, code, message) ==
  IF globalWrapper = "MinimalWrapper" THEN MinimalWrapError(status, code, message)
  ELSE DefaultWrapError(status, code, message)
WrapSuccess(status, data) ==
  IF globalWrapper = "MinimalWrapper" THEN MinimalWrapSuccess(status, data)
  ELSE DefaultWrapSuccess(status, data)

\* ginHandler: parseSchema returned an error
RespondParseError ==
  /\ pc = "failed"
  /\ LET errorResult == convertToErrorResult(err) IN
     responses' = Append(responses, WrapError(400, errorResult.code, errorResult.message))
  /\ pc' = "done"
  /\ UNCHANGED <<schemaType, c, schema, fieldIdx, err, ret, trace>>
  /\ UNCHANGED <<genVars, authVars, extVars>>

\* ginHandler: result, err := handler(c, schema)
CallHandler ==
  /\ pc = "handler"
  /\ \E r \in HandlerReturns : ret' = r
  /\ trace' = Append(trace, <<"handler">>)
  /\ pc' = "returned"
  /\ UNCHANGED <<schemaType, c, schema, fieldIdx, err, responses>>
  /\ UNCHANGED <<genVars, authVars, extVars>>

\* the response ginHandler writes for what the handler returned
HandlerResponse(r) ==
  IF ~r.err.nil
  THEN IF r.err.kind = "ErrorResult"
       THEN WrapError(400, r.err.code, r.err.msg)
       ELSE LET errorResult == convertToErrorResult(r.err) IN
            WrapError(400, errorResult.code, errorResult.message)
  ELSE IF r.result = "nil"
       THEN WrapError(500, <<"ERR_INTERNAL">>, <<"Handler", "returned", "nil", "result", "without", "error">>)
       ELSE WrapSuccess(200, "result")

\* ginHandler: the rest after the handler returned
RespondHandler ==
  /\ pc = "returned"
  /\ responses' = Append(responses, HandlerResponse(ret))
  /\ pc' = "done"
  /\ UNCHANGED <<schemaType, c, schema, fieldIdx, err, ret, trace>>
  /\ UNCHANGED <<genVars, authVars, extVars>>

Next ==
  \/ AssignParams
  \/ AssignQuery
  \/ AssignBody
  \/ AssignSkip
  \/ Validate
  \/ RespondParseError
  \/ CallHandler
  \/ RespondHandler
  \/ SetResponseWrapper

Spec == Init /\ [][Next]_vars

(***************************************************************************)
(* Document generation: one call of generateOpenAPISpec.  The recursion of *)
(* generateStructSchemaWithContext is run on an explicit call stack; a     *)
(* goroutine whose stack outgrows its limit is killed by the runtime.      *)
(***************************************************************************)
MaxPasses == 2
MaxOps == 2
MaxDepth == 6

RECURSIVE convertGinPathToOpenAPI(_)
\* convertGinPathToOpenAPI: ":" and the run of non-"/" atoms after it becomes "{run}"
convertGinPathToOpenAPI(ginPath) ==
  IF ginPath = <<>> THEN <<>>
  ELSE IF ginPath[1] = ":" /\ Len(ginPath) > 1 /\ ginPath[2] # "/"
       THEN LET ends == { k \in 2..Len(ginPath) : k = Len(ginPath) \/ ginPath[k + 1] = "/" }
                e    == CHOOSE k \in ends : \A j \in ends : k <= j
            IN <<"{">> \o SubSeq(ginPath, 2, e) \o <<"}">> \o convertGinPathToOpenAPI(SubSeq(ginPath, e + 1, Len(ginPath)))
       ELSE <<ginPath[1]>> \o convertGinPathToOpenAPI(Tail(ginPath))

HandlerInfo(m, p, ss, st, rt) ==
  [method |-> m, path |-> p, securitySchemes |-> ss, schemaType |-> st, responseType |-> rt]

Routes ==
  { HandlerInfo("GET",   <<"/", "items", "/", ":", "id">>, <<"apiKey">>, "ItemSchema", "User"),
    HandlerInfo("PUT",   <<"/", "items", "/", ":", "id">>, <<"flexible">>, "PutUserSchema", "SearchResponse"),
    HandlerInfo("PATCH", <<"/", "items", "/", ":", "id">>, <<"any">>, "PatchSchema", "UserSlice"),
    HandlerInfo("POST",  <<"/", "users">>, <<>>, "CreateUserSchema", "User"),
    HandlerInfo("POST",  <<"/", "items">>, <<"bearer", "apiKey">>, "CreateItemSchema", "SearchResponse"),
    HandlerInfo("POST",  <<"/", "search">>, <<"queryKey">>, "PostSearchSchema", "UserSlice"),
    HandlerInfo("GET",   <<"/", "table">>, <<"partner">>, "ListSchema", "Table"),
    HandlerInfo("GET",   <<"/", "tree">>, <<>>, "ListSchema", "Node"),
    HandlerInfo("GET",   <<"/", "filter">>, <<>>, "FilterSchema", "User") }

\* the routes of a router: every (method, path) at most once
RouteLists ==
  UNION { { rs \in [1..n -> Routes] : \A i, j \in 1..n : i # j => rs[i] # rs[j] } : n \in 1..MaxOps }

\* no request is being handled
ReqIdle ==
  /\ schemaType = "ItemSchema"
  /\ c = [params |-> NoValues, query |-> NoValues, body |-> NoBody]
  /\ schema = Zero("ItemSchema")
  /\ pc = "idle"
  /\ fieldIdx = 1
  /\ err = Nil
  /\ ret = NoReturn
  /\ responses = <<>>
  /\ trace = <<>>

GenInit ==
  /\ rtypes = Types
  /\ ReqIdle
  /\ AuthIdle
  /\ ExtIdle
  /\ handlerInfos \in RouteLists
  /\ gpc = "gen"
  /\ opIdx = 0
  /\ roots = <<>>
  /\ operation = NoOperation
  /\ stack = <<>>
  /\ schemas = NoProps
  /\ securitySchemes = NoProps
  /\ paths = NoProps
  /\ docs = <<>>

\* a pending generateJSONSchemaFromType call of generateOperation
Root(slot, type, param) == [slot |-> slot, type |-> type, param |-> param]
NoParam == [name |-> <<>>, in |-> "", required |-> FALSE, type |-> "", default |-> <<>>, origin |-> <<>>]

\* the calls generateOperation makes for one operation, in order: one per parameter,
\* one for the Body field, one for the response type
RECURSIVE SecurityComponents(_)
\* generateOperation's loop over info.SecuritySchemes: the schemes whose GetSecurityScheme
\* it calls, in order (the components of a MultiSecurity, any other scheme itself)
SecurityComponents(ss) ==
  IF ss = <<>> THEN <<>>
  ELSE (IF AppSchemes[Head(ss)].kind = "multi" THEN AppSchemes[Head(ss)].Schemes ELSE << Head(ss) >>)
       \o SecurityComponents(Tail(ss))

\* the work of generateOperation, in order: the security section, then the schema calls
RootsOf(info) ==
  LET params == extractParameters(info.schemaType) IN
  [k \in 1..Len(SecurityComponents(info.securitySchemes)) |->
      Root("security", SecurityComponents(info.securitySchemes)[k], NoParam)]
    \o [k \in 1..Len(params) |-> Root("param", params[k].type, params[k])]
    \o [k \in 1..Len(BodyField(info.schemaType)) |-> Root("body", BodyField(info.schemaType)[k].type, NoParam)]
    \o << Root("response", info.responseType, NoParam) >>

\* generateOperation starts on the next handler info
GenBeginOperation ==
  /\ gpc = "gen"
  /\ stack = <<>> /\ roots = <<>> /\ operation = NoOperation
  /\ opIdx < Len(handlerInfos)
  /\ opIdx' = opIdx + 1
  /\ operation' = [NoOperation EXCEPT !.method = handlerInfos[opIdx + 1].method,
                                      !.path = handlerInfos[opIdx + 1].path]
  /\ roots' = RootsOf(handlerInfos[opIdx + 1])
  /\ UNCHANGED <<handlerInfos, gpc, stack, schemas, paths, securitySchemes, docs>>
  /\ UNCHANGED <<reqVars, authVars, extVars>>

\* a frame of generateStructSchemaWithContext: i is the loop index (1-based)
Frame(t, schemaName, contextName) ==
  [t |-> t, schemaName |-> schemaName, contextName |-> contextName, i |-> 1,
   properties |-> NoProps, required |-> <<>>]

Top(stk) == stk[Len(stk)]
Pop(stk) == SubSeq(stk, 1, Len(stk) - 1)
FrameField(fr) == TypeOf(fr.t).fields[fr.i]
FrameDone(fr) == fr.i > Len(TypeOf(fr.t).fields)
\* the loop skips unexported fields and fields with the JSON name "-"
FrameSkips(fr) == ~IsExported(FrameField(fr)) \/ getJSONFieldName(FrameField(fr)) = cDash

\* the generateJSONSchemaFromTypeWithContext call that is next on call stack stk
SiteReach(stk) ==
  IF stk = <<>> THEN Reach(Head(roots).type, <<>>)
  ELSE Reach(FrameField(Top(stk)).type,
             FieldContextName(Top(stk).schemaName, Top(stk).contextName, FrameField(Top(stk))))

AtCallSite ==
  /\ gpc = "gen"
  /\ IF stack = <<>> THEN roots # <<>> /\ Head(roots).slot # "security"
     ELSE ~FrameDone(Top(stack)) /\ ~FrameSkips(Top(stack))

\* a mutation of RegisterScheme that stores the fragment without the exists test
RegisterSchemeAlways(table, s) == Put(table, s.Name, GetSecurityScheme(s))

\* generateOperation: "Add component to securitySchemes if not already present"
RegisterScheme(table, s) ==
  IF s.Name \in DOMAIN table THEN table ELSE Put(table, s.Name, GetSecurityScheme(s))

\* a mutation of AddRequirement that puts every scheme name into one requirement
AddRequirementCombined(security, schemeName) ==
  IF security = <<>> THEN << schemeName :> <<>> >> ELSE << security[1] @@ (schemeName :> <<>>) >>

\* generateOperation: securityReq := map[string][]string{schemeName: {}} appended to security
AddRequirement(security, schemeName) == Append(security, schemeName :> <<>>)

\* the security section of generateOperation for one scheme it calls GetSecurityScheme on.
\* (For a MultiSecurity the code stores all component fragments before it appends the
\* requirements; the two touch different maps, so the result is the same.)
GenSecurity ==
  /\ gpc = "gen"
  /\ stack = <<>> /\ roots # <<>> /\ Head(roots).slot = "security"
  /\ securitySchemes' = RegisterScheme(securitySchemes, AppSchemes[Head(roots).type])
  /\ operation' = [operation EXCEPT !.security = AddRequirement(@, AppSchemes[Head(roots).type].Name)]
  /\ roots' = Tail(roots)
  /\ UNCHANGED <<handlerInfos, gpc, opIdx, stack, schemas, paths, docs>>
  /\ UNCHANGED <<reqVars, authVars, extVars>>

\* the success envelope of generateSuccessResponse
SuccessEnvelope(data) ==
  [newJSONSchema("object",
      (<<"success">> :> [newJSONSchema("boolean", NoProps) EXCEPT !.default = <<[k |-> "bool", i |-> 0, s |-> <<>>, b |-> TRUE]>>])
   @@ (<<"data">> :> data)
   @@ (<<"error">> :> newJSONSchema("null", NoProps)))
   EXCEPT !.required = << <<"success">>, <<"data">>, <<"error">> >>]

\* what generateOperation does with the node of a finished call
FillSlot(op, root, node) ==
  CASE root.slot = "param" ->
         [op EXCEPT !.parameters = Append(@,
            [name |-> root.param.name, in |-> root.param.in, required |-> root.param.required,
             schema |-> IF root.param.default # <<>>
                        THEN [node EXCEPT !.default = parseDefaultValue(root.param.default, TypeOf(root.param.type))]
                        ELSE node])]
    [] root.slot = "body" ->
         [op EXCEPT !.requestBody = << [required |-> hasRequiredFields(TypeOf(root.type)), schema |-> node] >>]
    [] OTHER -> [op EXCEPT !.response = << SuccessEnvelope(node) >>]

\* what the loop of generateStructSchemaWithContext does with a field's node
AddProperty(fr, node) ==
  LET field == FrameField(fr) IN
  [fr EXCEPT !.properties = Put(@, getJSONFieldName(field), addValidationConstraints(node, field)),
             !.required = IF isRequired(field) THEN Append(@, getJSONFieldName(field)) ELSE @,
             !.i = @ + 1]

\* the call that was next on stk returns node to its caller
Deliver(stk, node) ==
  LET result == InArrays(node, SiteReach(stk).layers) IN
  IF stk = <<>>
  THEN /\ stack' = <<>>
       /\ roots' = Tail(roots)
       /\ operation' = FillSlot(operation, Head(roots), result)
  ELSE /\ stack' = [stk EXCEPT ![Len(stk)] = AddProperty(@, result)]
       /\ UNCHANGED <<roots, operation>>

\* a mutation of the "already have" test that takes every schema for stored
AlreadyHaveAny(schemaName) == schemaName = schemaName

\* generateStructSchemaWithContext: "Check if we already have this schema"
AlreadyHave(schemaName) == schemaName \in DOMAIN schemas

\* a call that returns without walking a struct: a primitive, an opaque object, or a
\* struct whose name is already in the table
GenCallLeaf ==
  /\ AtCallSite
  /\ LET r == SiteReach(stack)
         schemaName == SchemaNameOf(TypeOf(r.type), r.ctx)
     IN /\ r.struct => AlreadyHave(schemaName)
        /\ Deliver(stack, IF r.struct THEN RefTo(schemaName) ELSE r.node)
  /\ UNCHANGED <<handlerInfos, gpc, opIdx, schemas, paths, securitySchemes, docs>>
  /\ UNCHANGED <<reqVars, authVars, extVars>>

\* a call of generateStructSchemaWithContext that starts walking the fields of a struct
GenCallStruct ==
  /\ AtCallSite
  /\ LET r == SiteReach(stack)
         schemaName == SchemaNameOf(TypeOf(r.type), r.ctx)
     IN /\ r.struct /\ ~AlreadyHave(schemaName)
        /\ IF Len(stack) >= MaxDepth
           THEN gpc' = "overflow" /\ UNCHANGED stack
           ELSE stack' = Append(stack, Frame(r.type, schemaName, r.ctx)) /\ UNCHANGED gpc
  /\ UNCHANGED <<handlerInfos, opIdx, roots, operation, schemas, paths, securitySchemes, docs>>
  /\ UNCHANGED <<reqVars, authVars, extVars>>

\* the loop of generateStructSchemaWithContext passes over a field
GenSkipField ==
  /\ gpc = "gen"
  /\ stack # <<>> /\ ~FrameDone(Top(stack)) /\ FrameSkips(Top(stack))
  /\ stack' = [stack EXCEPT ![Len(stack)].i = @ + 1]
  /\ UNCHANGED <<handlerInfos, gpc, opIdx, roots, operation, schemas, paths, securitySchemes, docs>>
  /\ UNCHANGED <<reqVars, authVars, extVars>>

\* the node generateStructSchemaWithContext stores for a finished frame
FrameNode(fr) == [newJSONSchema("object", fr.properties) EXCEPT !.required = fr.required]

\* generateStructSchemaWithContext after its loop: store the schema, return the $ref
GenReturn ==
  /\ gpc = "gen"
  /\ stack # <<>> /\ FrameDone(Top(stack))
  /\ schemas' = Put(schemas, Top(stack).schemaName, FrameNode(Top(stack)))
  /\ Deliver(Pop(stack), RefTo(Top(stack).schemaName))
  /\ UNCHANGED <<handlerInfos, gpc, opIdx, paths, securitySchemes, docs>>
  /\ UNCHANGED <<reqVars, authVars, extVars>>

\* generateOpenAPISpec stores the finished operation under its path and method
GenEndOperation ==
  /\ gpc = "gen"
  /\ stack = <<>> /\ roots = <<>> /\ operation # NoOperation
  /\ LET openAPIPath == convertGinPathToOpenAPI(operation.path)
         pathItem == IF openAPIPath \in DOMAIN paths THEN paths[openAPIPath] ELSE NoProps
     IN paths' = Put(paths, openAPIPath, Put(pathItem, operation.method, operation))
  /\ operation' = NoOperation
  /\ UNCHANGED <<handlerInfos, gpc, opIdx, roots, stack, schemas, securitySchemes, docs>>
  /\ UNCHANGED <<reqVars, authVars, extVars>>

\* generateOpenAPISpec returns the document
GenFinish ==
  /\ gpc = "gen"
  /\ stack = <<>> /\ roots = <<>> /\ operation = NoOperation
  /\ opIdx = Len(handlerInfos)
  /\ gpc' = "done"
  /\ docs' = Append(docs, [paths |-> paths, schemas |-> schemas, securitySchemes |-> securitySchemes])
  /\ UNCHANGED <<handlerInfos, opIdx, roots, operation, stack, schemas, paths, securitySchemes>>
  /\ UNCHANGED <<reqVars, authVars, extVars>>

\* a mutation of extractHandlerInfos that returns the routes in the opposite order
extractHandlerInfosReversed(routes) == [k \in 1..Len(routes) |-> routes[Len(routes) + 1 - k]]

\* extractHandlerInfos: the handler infos of the routes, in the order of router.Routes()
\* (every route of the model has a typed handler, so analyzeHandler skips none)
extractHandlerInfos(routes) == routes

\* generateOpenAPISpec is called again, on the same router and registries: a new spec
\* with empty paths and components
GenAgain ==
  /\ gpc = "done"
  /\ Len(docs) < MaxPasses
  /\ handlerInfos' = extractHandlerInfos(handlerInfos)
  /\ gpc' = "gen"
  /\ opIdx' = 0
  /\ schemas' = NoProps
  /\ securitySchemes' = NoProps
  /\ paths' = NoProps
  /\ UNCHANGED <<roots, operation, stack, docs>>
  /\ UNCHANGED <<reqVars, authVars, extVars>>

GenNext ==
  \/ GenAgain
  \/ GenBeginOperation
  \/ GenSecurity
  \/ GenCallLeaf
  \/ GenCallStruct
  \/ GenSkipField
  \/ GenReturn
  \/ GenEndOperation
  \/ GenFinish

GenSpec == GenInit /\ [][GenNext]_vars

(***************************************************************************)
(* The authentication middleware of one route serving one request          *)
(* (security.go): specification AuthSpec                                   *)
(***************************************************************************)
AuthInit ==
  /\ GenIdle
  /\ ReqIdle
  /\ ExtIdle
  /\ authScheme \in DOMAIN AppSchemes
  /\ authReq \in AuthRequests
  /\ authPc = "enter"
  /\ authIdx = 1
  /\ authTried = <<>>
  /\ authKeys = <<>>

\* the handler of a scheme that is not a MultiSecurity runs to its end
SingleMiddleware(kind, keys) ==
  /\ authPc = "enter"
  /\ AppSchemes[authScheme].kind = kind
  /\ authPc' = MiddlewareOutcome(AppSchemes[authScheme], authReq)
  /\ authKeys' = IF MiddlewareOutcome(AppSchemes[authScheme], authReq) = "next" THEN keys ELSE <<>>
  /\ UNCHANGED <<authScheme, authReq, authIdx, authTried>>
  /\ UNCHANGED <<reqVars, genVars, extVars>>

\* APIKeySecurity.Middleware
APIKeyMiddleware == SingleMiddleware("apiKey", "api_key" :> KeyFrom(AppSchemes[authScheme], authReq))

\* BearerSecurity.Middleware
BearerMiddleware ==
  SingleMiddleware("bearer", "bearer_token" :> SubSeq(authReq.authorization, 8, Len(authReq.authorization)))

\* CustomOAuthSecurity.Middleware
CustomMiddleware == SingleMiddleware("custom", "oauth_token" :> authReq.authorization)

\* MultiSecurity.Middleware: one iteration of the loop over m.Schemes
MultiTry ==
  /\ authPc = "enter"
  /\ AppSchemes[authScheme].kind = "multi"
  /\ authIdx <= Len(AppSchemes[authScheme].Schemes)
  /\ LET scheme == AppSchemes[authScheme].Schemes[authIdx]
         success == tryScheme(AppSchemes[scheme], authReq)
     IN /\ authTried' = Append(authTried, scheme)
        /\ IF success.ok
           THEN authPc' = "next" /\ authKeys' = success.keys /\ UNCHANGED authIdx
           ELSE authIdx' = authIdx + 1 /\ UNCHANGED <<authPc, authKeys>>
  /\ UNCHANGED <<authScheme, authReq>>
  /\ UNCHANGED <<reqVars, genVars, extVars>>

\* MultiSecurity.Middleware after the loop: "None of the schemes worked"
MultiReject ==
  /\ authPc = "enter"
  /\ AppSchemes[authScheme].kind = "multi"
  /\ authIdx > Len(AppSchemes[authScheme].Schemes)
  /\ authPc' = "401"
  /\ UNCHANGED <<authScheme, authReq, authIdx, authTried, authKeys>>
  /\ UNCHANGED <<reqVars, genVars, extVars>>

AuthNext ==
  \/ APIKeyMiddleware
  \/ BearerMiddleware
  \/ CustomMiddleware
  \/ MultiTry
  \/ MultiReject

AuthSpec == AuthInit /\ [][AuthNext]_vars

(***************************************************************************)
(* Concurrent calls: two calls of generateOpenAPISpec and one request       *)
(* being parsed, after a first call of generateOpenAPISpec that ran alone   *)
(***************************************************************************)
\* the routers of the concurrent runs
ConcRouteLists ==
  { << HandlerInfo("GET", <<"/", "items", "/", ":", "id">>, <<"apiKey">>, "ItemSchema", "User") >>,
    << HandlerInfo("POST", <<"/", "items">>, <<"bearer", "apiKey">>, "CreateItemSchema", "SearchResponse"),
       HandlerInfo("POST", <<"/", "users">>, <<>>, "CreateUserSchema", "User") >> }

\* the requests parsed during the concurrent runs, with the type T of their handler
ConcRequests ==
  { [schemaType |-> "UpdateSchema",
     c |-> [params |-> <<"i","d">> :> <<"4","2">>, query |-> <<"q">> :> <<"g","o">>,
            body |-> JSONBody(<<"n","a","m","e">> :> JStr(<<"g","o">>))]],
    [schemaType |-> "ListSchema",
     c |-> [params |-> NoValues, query |-> <<"l","i","m","i","t">> :> <<"3">>, body |-> NoBody]],
    [schemaType |-> "ItemSchema",
     c |-> [params |-> NoValues, query |-> <<"l","i","m","i","t">> :> <<"a","b","c">>, body |-> NoBody]] }

\* the first call of generateOpenAPISpec is running alone, the request has not arrived
ConcInit ==
  /\ rtypes = Types
  /\ AuthIdle
  /\ ExtIdle
  /\ handlerInfos \in ConcRouteLists
  /\ gpc = "gen"
  /\ opIdx = 0
  /\ roots = <<>>
  /\ operation = NoOperation
  /\ stack = <<>>
  /\ schemas = NoProps
  /\ securitySchemes = NoProps
  /\ paths = NoProps
  /\ docs = <<>>
  /\ \E r \in ConcRequests : schemaType = r.schemaType /\ c = r.c
  /\ schema = Zero(schemaType)
  /\ pc = "wait"
  /\ fieldIdx = 1
  /\ err = Nil
  /\ ret = NoReturn
  /\ responses = <<>>
  /\ trace = <<>>

\* a mutation of CallLocals that does not keep the operation being built
CallLocalsWithoutOperation ==
  [gpc |-> gpc, opIdx |-> opIdx, roots |-> roots, operation |-> NoOperation, stack |-> stack,
   schemas |-> schemas, securitySchemes |-> securitySchemes, paths |-> paths]

\* the locals of the running call of generateOpenAPISpec: spec, the loop over
\* handlerInfos, and the calls below it
CallLocals ==
  [gpc |-> gpc, opIdx |-> opIdx, roots |-> roots, operation |-> operation, stack |-> stack,
   schemas |-> schemas, securitySchemes |-> securitySchemes, paths |-> paths]

\* the locals of a call of generateOpenAPISpec that has just built its empty spec
NewCall ==
  [gpc |-> "gen", opIdx |-> 0, roots |-> <<>>, operation |-> NoOperation, stack |-> <<>>,
   schemas |-> NoProps, securitySchemes |-> NoProps, paths |-> NoProps]

\* the running call becomes call
Run(call) ==
  /\ gpc' = call.gpc
  /\ opIdx' = call.opIdx
  /\ roots' = call.roots
  /\ operation' = call.operation
  /\ stack' = call.stack
  /\ schemas' = call.schemas
  /\ securitySchemes' = call.securitySchemes
  /\ paths' = call.paths

\* the first call has returned: two calls of generateOpenAPISpec start on the same
\* router and the request reaches its handler
ConcStart ==
  /\ gpc = "done" /\ Len(docs) = 1 /\ parked = <<>> /\ pc = "wait"
  /\ handlerInfos' = extractHandlerInfos(handlerInfos)
  /\ Run(NewCall)
  /\ parked' = NewCall
  /\ pc' = "assign"
  /\ UNCHANGED <<docs, rtypes, schemaType, c, schema, fieldIdx, err, ret, responses, trace>>
  /\ UNCHANGED <<authVars, globalWrapper, regVars, services, injResult>>

\* the scheduler suspends the running call and resumes the other one
Switch ==
  /\ parked # <<>>
  /\ gpc \in {"gen", "done"}
  /\ parked.gpc = "gen"
  /\ parked' = CallLocals
  /\ Run(parked)
  /\ UNCHANGED <<handlerInfos, docs, rtypes>>
  /\ UNCHANGED <<schemaType, c, schema, pc, fieldIdx, err, ret, responses, trace>>
  /\ UNCHANGED <<authVars, globalWrapper, regVars, services, injResult>>

ConcNext ==
  \/ ConcStart
  \/ Switch
  \/ GenBeginOperation
  \/ GenSecurity
  \/ GenCallLeaf
  \/ GenCallStruct
  \/ GenSkipField
  \/ GenReturn
  \/ GenEndOperation
  \/ GenFinish
  \/ AssignParams
  \/ AssignQuery
  \/ AssignBody
  \/ AssignSkip
  \/ Validate

ConcSpec == ConcInit /\ [][ConcNext]_vars

(***************************************************************************)
(* Registration (schema.go, security.go, router.go): the public calls that *)
(* write the registries, and the routes of a router                        *)
(***************************************************************************)
MaxRegistered == 2

\* key := method + " " + path
RegKey(method, path) == [method |-> method, path |-> path]

\* the typed handlers of the application, by their schema and response type
TypedHandlers ==
  { [schemaType |-> "ItemSchema", responseType |-> "User"],
    [schemaType |-> "ListSchema", responseType |-> "Table"] }

RegMethods == { "GET" }
RegPaths == { <<"/", "api", "/", "users">> }
RegSchemes == { "apiKey", "queryKey", "bearer" }

\* reflect.ValueOf(handler).Pointer() of the handler a scheme's Middleware() returns: the
\* code pointer of the function literal in the Middleware method of its concrete type
CodePointer(s) == AppSchemes[s].kind

\* the gin.HandlerFunc returned by Middleware() of scheme s
MiddlewareOf(s) == [fn |-> CodePointer(s), scheme |-> s]

\* a gin.HandlerFunc that no security scheme produced
PlainHandler == [fn |-> "Logger", scheme |-> "none"]

\* GetSecuritySchemes(method, path): nil when the key is absent
GetSecuritySchemes(registry, method, path) ==
  IF RegKey(method, path) \in DOMAIN registry THEN registry[RegKey(method, path)] ELSE <<>>

\* RegisterTypedHandler(method, path, handler)
RegisterTypedHandler(table, method, path, handler) == Put(table, RegKey(method, path), handler)

\* RegisterSecurityScheme(method, path, schemes...)
RegisterSecurityScheme(registry, method, path, schemes) ==
  Put(registry, RegKey(method, path), GetSecuritySchemes(registry, method, path) \o schemes)

RECURSIVE RegisterSecurityMiddlewares(_, _)
\* RegisterSecurityMiddleware(handler, scheme) for the Middleware() call of each scheme of a list
RegisterSecurityMiddlewares(registry, schemes) ==
  IF schemes = <<>> THEN registry
  ELSE RegisterSecurityMiddlewares(Put(registry, CodePointer(Head(schemes)), Head(schemes)), Tail(schemes))

\* gin adds a route unless the method and path already have one (then it panics)
AddRoute(rs, method, path, chain, handler) ==
  IF \E k \in 1..Len(rs) : rs[k].method = method /\ rs[k].path = path THEN rs
  ELSE Append(rs, [method |-> method, path |-> path, chain |-> chain, handler |-> handler])

\* a direct call of RegisterTypedHandler
CallRegisterTypedHandler ==
  /\ \E method \in RegMethods, path \in RegPaths, handler \in TypedHandlers :
       typedHandlers' = RegisterTypedHandler(typedHandlers, method, path, handler)
  /\ UNCHANGED <<securitySchemeRegistry, middlewareRegistry, produced, groupSecuritySchemes, groupHandlers, ginRoutes>>
  /\ UNCHANGED <<reqVars, genVars, authVars, globalWrapper, services, injResult, parked>>

\* a direct call of RegisterSecurityScheme
CallRegisterSecurityScheme ==
  /\ \E method \in RegMethods, path \in RegPaths, s \in RegSchemes :
       /\ Len(GetSecuritySchemes(securitySchemeRegistry, method, path)) < MaxRegistered
       /\ securitySchemeRegistry' = RegisterSecurityScheme(securitySchemeRegistry, method, path, <<s>>)
  /\ UNCHANGED <<typedHandlers, middlewareRegistry, produced, groupSecuritySchemes, groupHandlers, ginRoutes>>
  /\ UNCHANGED <<reqVars, genVars, authVars, globalWrapper, services, injResult, parked>>

\* ClearSecuritySchemes()
ClearSecuritySchemes ==
  /\ securitySchemeRegistry' = <<>>
  /\ middlewareRegistry' = <<>>
  /\ UNCHANGED <<typedHandlers, produced, groupSecuritySchemes, groupHandlers, ginRoutes>>
  /\ UNCHANGED <<reqVars, genVars, authVars, globalWrapper, services, injResult, parked>>

\* processHandlers(method, path, handlers) for handlers = schemes..., typed handler: the
\* Middleware() call of each scheme and the write of the typed handler
ProcessHandlers(method, path, schemes, handler) ==
  /\ middlewareRegistry' = RegisterSecurityMiddlewares(middlewareRegistry, schemes)
  /\ produced' = produced \cup { schemes[k] : k \in 1..Len(schemes) }
  /\ typedHandlers' = RegisterTypedHandler(typedHandlers, method, path, handler)

\* processHandlers: "Register security schemes"
ProcessedSchemes(registry, method, path, schemes) ==
  IF Len(schemes) > 0 THEN RegisterSecurityScheme(registry, method, path, schemes) ELSE registry

\* RouterHelper.GET / POST: processHandlers, then r.Engine adds the route
RouterRoute ==
  /\ \E method \in RegMethods, path \in RegPaths, handler \in TypedHandlers,
        schemes \in {<<>>} \cup { <<s>> : s \in RegSchemes } :
       /\ Len(GetSecuritySchemes(securitySchemeRegistry, method, path)) + Len(schemes) <= MaxRegistered
       /\ ProcessHandlers(method, path, schemes, handler)
       /\ securitySchemeRegistry' = ProcessedSchemes(securitySchemeRegistry, method, path, schemes)
       /\ ginRoutes' = AddRoute(ginRoutes, method, path,
                                [k \in 1..Len(schemes) |-> MiddlewareOf(schemes[k])], handler)
  /\ UNCHANGED <<groupSecuritySchemes, groupHandlers>>
  /\ UNCHANGED <<reqVars, genVars, authVars, globalWrapper, services, injResult, parked>>

RegInit == GenIdle /\ ReqIdle /\ AuthIdle /\ ExtIdle

RegNext ==
  \/ CallRegisterTypedHandler
  \/ CallRegisterSecurityScheme
  \/ ClearSecuritySchemes
  \/ RouterRoute

RegSpec == RegInit /\ [][RegNext]_vars

(***************************************************************************)
(* A router group (router.go): Middleware() calls, RouterGroup.Use and the *)
(* routes registered on the group                                          *)
(***************************************************************************)
MaxUse == 2

\* rg.RouterGroup.BasePath() of the group, and the paths of its routes
GroupBasePath == <<"/", "api">>
GroupPaths == { <<"/", "users">> }

\* IsSecurityMiddleware(handler): the scheme found, as a list of zero or one
IsSecurityMiddleware(registry, handler) ==
  IF handler.fn \in DOMAIN registry THEN << registry[handler.fn] >> ELSE <<>>

\* scheme.Middleware() is called and its handler kept by the application
MiddlewareCall ==
  /\ \E s \in RegSchemes :
       /\ middlewareRegistry' = RegisterSecurityMiddlewares(middlewareRegistry, <<s>>)
       /\ produced' = produced \cup {s}
  /\ UNCHANGED <<typedHandlers, securitySchemeRegistry, groupSecuritySchemes, groupHandlers, ginRoutes>>
  /\ UNCHANGED <<reqVars, genVars, authVars, globalWrapper, services, injResult, parked>>

\* rg.Use(handler) with a handler the application holds
GroupUse ==
  /\ Len(groupHandlers) < MaxUse
  /\ \E handler \in { MiddlewareOf(s) : s \in produced } \cup { PlainHandler } :
       /\ groupSecuritySchemes' = groupSecuritySchemes \o IsSecurityMiddleware(middlewareRegistry, handler)
       /\ groupHandlers' = Append(groupHandlers, handler)
  /\ UNCHANGED <<typedHandlers, securitySchemeRegistry, middlewareRegistry, produced, ginRoutes>>
  /\ UNCHANGED <<reqVars, genVars, authVars, globalWrapper, services, injResult, parked>>

\* rg.GET(path, handler): processGroupHandlers, then the group adds the route behind its
\* own handlers
GroupRoute ==
  /\ \E method \in RegMethods, path \in GroupPaths, handler \in TypedHandlers :
       LET fullPath == GroupBasePath \o path IN
       /\ Len(GetSecuritySchemes(securitySchemeRegistry, method, fullPath)) + Len(groupSecuritySchemes)
            <= MaxRegistered
       /\ ProcessHandlers(method, fullPath, <<>>, handler)
       /\ securitySchemeRegistry' =
            IF Len(groupSecuritySchemes) > 0
            THEN RegisterSecurityScheme(ProcessedSchemes(securitySchemeRegistry, method, fullPath, <<>>),
                                        method, fullPath, groupSecuritySchemes)
            ELSE ProcessedSchemes(securitySchemeRegistry, method, fullPath, <<>>)
       /\ ginRoutes' = AddRoute(ginRoutes, method, fullPath, groupHandlers, handler)
  /\ UNCHANGED <<groupSecuritySchemes, groupHandlers>>
  /\ UNCHANGED <<reqVars, genVars, authVars, globalWrapper, services, injResult, parked>>

GroupInit == GenIdle /\ ReqIdle /\ AuthIdle /\ ExtIdle

GroupNext ==
  \/ MiddlewareCall
  \/ GroupUse
  \/ GroupRoute

GroupSpec == GroupInit /\ [][GroupNext]_vars

(***************************************************************************)
(* The inject container (inject.go)                                        *)
(***************************************************************************)
MaxNamed == 2

\* the type parameters T of the calls, and the names of named registrations
InjTypes == { "AuthProvider", "string" }
InjNames == { "providers", "foo" }

\* a registered value: a func(*Container) T, or a value of type T
Factory(type, id) == [kind |-> "factory", type |-> type, id |-> id]
Instance(type, id) == [kind |-> "instance", type |-> type, id |-> id]

\* NewGoogleAuthProvider, NewGithubAuthProvider and the string "bar"
InjValues == { Factory("AuthProvider", "google"), Factory("AuthProvider", "github"), Instance("string", "bar") }

\* the keys of c.services: reflect.TypeOf((*T)(nil)).Elem(), or a name
TypeKey(type) == [kind |-> "type", id |-> type]
NameKey(name) == [kind |-> "name", id |-> name]

\* var zero T
ZeroOf(type) == Instance(type, "zero")

\* a mutation of the scan that counts every key of the container
hasAnyServices(svcs) == \E key \in DOMAIN svcs : key = key

\* Resolve: "Check if any type-based services are registered (exclude named services)"
hasTypeBasedServices(svcs) == \E key \in DOMAIN svcs : key.kind = "type"

\* Resolve[T](c)
Resolve(svcs, type) ==
  IF TypeKey(type) \notin DOMAIN svcs
  THEN IF ~hasTypeBasedServices(svcs) THEN [val |-> ZeroOf(type), err |-> "ErrServiceNotFound"]
       ELSE [val |-> ZeroOf(type), err |-> "ErrInvalidServiceType"]
  ELSE LET service == svcs[TypeKey(type)] IN
       IF service.kind = "factory" /\ service.type = type
       THEN [val |-> Instance(type, service.id), err |-> "nil"]
       ELSE IF service.kind = "instance" /\ service.type = type
       THEN [val |-> service, err |-> "nil"]
       ELSE [val |-> ZeroOf(type), err |-> "ErrInvalidServiceType"]

\* the value a named registration yields for T, as a list of zero or one: a factory is
\* called and its result asserted to T, any other value is asserted to T itself
NamedService(factory, type) ==
  IF factory.type = type THEN << Instance(type, factory.id) >> ELSE <<>>

\* GetNamed[T](c, name)
GetNamed(svcs, type, name) ==
  IF NameKey(name) \notin DOMAIN svcs THEN ZeroOf(type)
  ELSE IF Len(svcs[NameKey(name)]) = 0 THEN ZeroOf(type)
  ELSE IF NamedService(svcs[NameKey(name)][1], type) # <<>>
       THEN NamedService(svcs[NameKey(name)][1], type)[1]
       ELSE ZeroOf(type)

RECURSIVE AllNamedFrom(_, _)
\* the loop of GetAllNamed over the factories of a name
AllNamedFrom(factories, type) ==
  IF factories = <<>> THEN <<>>
  ELSE NamedService(Head(factories), type) \o AllNamedFrom(Tail(factories), type)

\* GetAllNamed[T](c, name)
GetAllNamed(svcs, type, name) ==
  IF NameKey(name) \notin DOMAIN svcs THEN <<>>
  ELSE AllNamedFrom(svcs[NameKey(name)], type)

\* Register[T](c, factory)
Register ==
  /\ \E type \in InjTypes, factory \in InjValues :
       services' = Put(services, TypeKey(type), factory)
  /\ injResult' = [op |-> "none"]
  /\ UNCHANGED <<reqVars, genVars, authVars, globalWrapper, regVars, parked>>

\* the number of named registrations the container holds
RECURSIVE NamedCount(_, _)
NamedCount(svcs, names) ==
  IF names = {} THEN 0
  ELSE LET name == CHOOSE n \in names : TRUE IN
       (IF NameKey(name) \in DOMAIN svcs THEN Len(svcs[NameKey(name)]) ELSE 0)
         + NamedCount(svcs, names \ {name})

\* RegisterNamed[T](c, name, factory)
RegisterNamed ==
  /\ NamedCount(services, InjNames) < MaxNamed
  /\ \E name \in InjNames, factory \in InjValues :
       IF NameKey(name) \in DOMAIN services
       THEN services' = Put(services, NameKey(name), Append(services[NameKey(name)], factory))
       ELSE services' = Put(services, NameKey(name), << factory >>)
  /\ injResult' = [op |-> "none"]
  /\ UNCHANGED <<reqVars, genVars, authVars, globalWrapper, regVars, parked>>

\* a call of Resolve[T](c)
CallResolve ==
  /\ \E type \in InjTypes :
       injResult' = [op |-> "Resolve", type |-> type, ret |-> Resolve(services, type)]
  /\ UNCHANGED <<reqVars, genVars, authVars, globalWrapper, regVars, services, parked>>

\* a call of GetNamed[T](c, name)
CallGetNamed ==
  /\ \E type \in InjTypes, name \in InjNames :
       injResult' = [op |-> "GetNamed", type |-> type, name |-> name, ret |-> GetNamed(services, type, name)]
  /\ UNCHANGED <<reqVars, genVars, authVars, globalWrapper, regVars, services, parked>>

\* a call of GetAllNamed[T](c, name)
CallGetAllNamed ==
  /\ \E type \in InjTypes, name \in InjNames :
       injResult' = [op |-> "GetAllNamed", type |-> type, name |-> name, ret |-> GetAllNamed(services, type, name)]
  /\ UNCHANGED <<reqVars, genVars, authVars, globalWrapper, regVars, services, parked>>

InjInit == GenIdle /\ ReqIdle /\ AuthIdle /\ ExtIdle

InjNext ==
  \/ Register
  \/ RegisterNamed
  \/ CallResolve
  \/ CallGetNamed
  \/ CallGetAllNamed

InjSpec == InjInit /\ [][InjNext]_vars

(***************************************************************************)
(* Properties of request handling (specification Spec)                     *)
(***************************************************************************)
Locations == {pParams, pQuery, pBody}
ParseSucceeded == pc \in {"handler", "returned"} \/ (pc = "done" /\ err.nil)
ParseFailed == pc = "failed" \/ (pc = "done" /\ ~err.nil)
HandlerCalled == \E k \in 1..Len(trace) : trace[k] = <<"handler">>
TraceLocations == SelectSeq(trace, LAMBDA e : e \in Locations)

\* the sub-records of schema type st that parseSchema treats as a location
Containers(st) ==
  { i \in 1..Len(TypeOf(st).fields) :
       ToLower(TypeOf(st).fields[i].name) \in Locations /\ TypeOf(TypeOf(st).fields[i].type).kind = "struct" }
ContainerLoc(st, i) == ToLower(TypeOf(st).fields[i].name)
ContainerType(st, i) == TypeOf(TypeOf(st).fields[i].type)

\* the request carries no value for field fd of a location
NoValueFor(loc, fd, req) ==
  CASE loc = pParams ->
         Lookup(req.params, IF getTagValue(fd, "param") = <<>> THEN ToLower(fd.name) ELSE getTagValue(fd, "param")) = <<>>
    [] loc = pQuery ->
         /\ Lookup(req.query, IF getTagValue(fd, "query") = <<>> THEN fd.name ELSE getTagValue(fd, "query")) = <<>>
         /\ Lookup(req.query, fd.name) = <<>>
         /\ Lookup(req.query, ToLower(fd.name)) = <<>>
    [] OTHER -> ~req.body.present \/ (req.body.valid /\ Member(req.body.obj, fd) = {})

\* the raw value the request carries for a Params or Query field
RawValueFor(loc, fd, req) ==
  IF loc = pParams
  THEN Lookup(req.params, IF getTagValue(fd, "param") = <<>> THEN ToLower(fd.name) ELSE getTagValue(fd, "param"))
  ELSE LET byTag == Lookup(req.query, IF getTagValue(fd, "query") = <<>> THEN fd.name ELSE getTagValue(fd, "query")) IN
       IF byTag # <<>> THEN byTag
       ELSE IF Lookup(req.query, fd.name) # <<>> THEN Lookup(req.query, fd.name)
       ELSE Lookup(req.query, ToLower(fd.name))

\* some field of a location is marked required, has no value in the request and no default
HasMissingRequired ==
  \E i \in Containers(schemaType) : \E j \in 1..Len(ContainerType(schemaType, i).fields) :
     LET fd == ContainerType(schemaType, i).fields[j] IN
     /\ isRequired(fd)
     /\ getTagValue(fd, "default") = <<>>
     /\ NoValueFor(ContainerLoc(schemaType, i), fd, c)

\* every value the request does carry converts to the kind of its field
RequestWellFormed ==
  /\ \A i \in Containers(schemaType) : \A j \in 1..Len(ContainerType(schemaType, i).fields) :
       LET fd  == ContainerType(schemaType, i).fields[j]
           loc == ContainerLoc(schemaType, i)
       IN loc # pBody /\ ~NoValueFor(loc, fd, c)
            => setFieldValue(Zero(fd.type), RawValueFor(loc, fd, c)).err.nil
  /\ c.body.present =>
       /\ c.body.valid
       /\ \A i \in Containers(schemaType) :
            ContainerLoc(schemaType, i) = pBody
              => decodeFrom(c.body.obj, ContainerType(schemaType, i), Zero(TypeOf(schemaType).fields[i].type), 1).err.nil

\* C1: a field of Params, Query or Body that is marked required, has no value in the
\* request and declares no default makes parse fail with MissingRequired, surfaced as
\* ERR_MISSING_REQUIRED; parse never succeeds with the field left at its zero value.
C1_MissingRequiredReported ==
  (HasMissingRequired /\ RequestWellFormed) =>
     /\ ~ParseSucceeded
     /\ pc = "done" => /\ ~HandlerCalled
                       /\ Len(responses) = 1
                       /\ responses[1].code = <<"ERR_MISSING_REQUIRED">>

\* the value of the instance at the place of a documented parameter
InstanceAt(origin) == IF Len(origin) = 1 THEN schema.f[origin[1]] ELSE schema.f[origin[1]].f[origin[2]]

\* C5: every parameter the generated document lists for the operation is a field that
\* parse populates from the request value of that name: when the request supplies the
\* documented parameter and parse succeeds, the instance holds the converted value.
C5_DocumentedParametersParsed ==
  ParseSucceeded =>
     \A k \in 1..Len(extractParameters(schemaType)) :
        LET p   == extractParameters(schemaType)[k]
            raw == Lookup(IF p.in = "path" THEN c.params ELSE c.query, p.name)
        IN raw # <<>> => /\ setFieldValue(Zero(p.type), raw).err.nil
                         /\ InstanceAt(p.origin) = setFieldValue(Zero(p.type), raw).val

LocRank(loc) == IF loc = pParams THEN 1 ELSE IF loc = pQuery THEN 2 ELSE 3

\* what the parse function of container i returns on a fresh instance
ParseOf(st, i, req) ==
  LET loc == ContainerLoc(st, i)
      t   == ContainerType(st, i)
      z   == Zero(TypeOf(st).fields[i].type)
  IN IF loc = pParams THEN parseParams(req, t, z)
     ELSE IF loc = pQuery THEN parseQuery(req, t, z)
     ELSE parseBody(req, t, z)
InvalidContainers == { i \in Containers(schemaType) : ~ParseOf(schemaType, i, c).err.nil }

\* C6 (fixed order): the assignment pass runs params, then query, then body, whatever the
\* order of declaration, and the reported failure is that of the earliest invalid
\* location in this order.
C6_FixedOrder ==
  /\ \A a, b \in 1..Len(TraceLocations) : a < b => LocRank(TraceLocations[a]) <= LocRank(TraceLocations[b])
  /\ (pc = "failed" /\ TraceLocations # <<>> /\ trace[Len(trace)] \in Locations) =>
        \A i \in InvalidContainers : LocRank(trace[Len(trace)]) <= LocRank(ContainerLoc(schemaType, i))

\* the locations of the schema type in the order of declaration
DeclaredLocations ==
  LET fs == TypeOf(schemaType).fields
      Upto[i \in 0..Len(fs)] ==
        IF i = 0 THEN <<>>
        ELSE IF ToLower(fs[i].name) \in Locations THEN Append(Upto[i - 1], ToLower(fs[i].name)) ELSE Upto[i - 1]
  IN Upto[Len(fs)]

\* C6 (declaration order): the assignment pass runs the locations in the order in which the schema
\* type declares them, and the reported failure is that of the first declared location
\* that is invalid.
C6_DeclarationOrder ==
  /\ Len(TraceLocations) <= Len(DeclaredLocations)
  /\ TraceLocations = SubSeq(DeclaredLocations, 1, Len(TraceLocations))
  /\ (pc = "failed" /\ trace[Len(trace)] \in Locations) =>
        /\ InvalidContainers # {}
        /\ LET first == CHOOSE i \in InvalidContainers : \A j \in InvalidContainers : i <= j IN
           /\ trace[Len(trace)] = ContainerLoc(schemaType, first)
           /\ err = Wrap(LocWord(ContainerLoc(schemaType, first)) \o <<"validation", "failed">>, ParseOf(schemaType, first, c).err)

\* a schema that declares Body, Query, Params in this order fails in Query while Params,
\* the earliest location of the fixed order, is invalid as well
C6_Witness ==
  /\ pc = "failed"
  /\ TraceLocations = << pBody, pQuery >>
  /\ \E i \in InvalidContainers : ContainerLoc(schemaType, i) = pParams

\* C7: a Params or Query field whose value is absent and which declares a default is
\* assigned the converted default and no missing-value error is reported; a value in the
\* request takes precedence over the default.
C7_DefaultsApplied ==
  /\ ParseSucceeded =>
       \A i \in Containers(schemaType) : \A j \in 1..Len(ContainerType(schemaType, i).fields) :
          LET fd  == ContainerType(schemaType, i).fields[j]
              loc == ContainerLoc(schemaType, i)
          IN (loc # pBody /\ getTagValue(fd, "default") # <<>>) =>
                schema.f[i].f[j] = setFieldValue(Zero(fd.type),
                                      IF NoValueFor(loc, fd, c) THEN getTagValue(fd, "default")
                                      ELSE RawValueFor(loc, fd, c)).val
  /\ ParseFailed =>
       \A i \in Containers(schemaType) : \A j \in 1..Len(ContainerType(schemaType, i).fields) :
          LET fd  == ContainerType(schemaType, i).fields[j]
              loc == ContainerLoc(schemaType, i)
          IN (loc # pBody /\ getTagValue(fd, "default") # <<>>) =>
                \A name \in { fd.name, ToLower(fd.name), getTagValue(fd, "param"), getTagValue(fd, "query") } :
                   ~StrContains(ErrorText(err), Quote(name) \o <<"is", "missing">>)

\* C8: the handler is called only after both passes succeeded, the constraint pass runs
\* only when every location was assigned without error, a parse or validation failure
\* gives exactly one 400 response with the mapped code and message and no handler call,
\* and a handler result gives exactly one 200 response.
C8_HandlerAfterBothPasses ==
  /\ HandlerCalled =>
       /\ err.nil
       /\ \E a, b \in 1..Len(trace) : a < b /\ trace[a] = <<"validate">> /\ trace[b] = <<"handler">>
  /\ (\E a \in 1..Len(trace) : trace[a] = <<"validate">>) =>
       /\ fieldIdx > Len(TypeOf(schemaType).fields)
       /\ Len(TraceLocations) = Len(DeclaredLocations)
  /\ Len(responses) <= 1
  /\ Len(responses) = 1 <=> pc = "done"
  /\ (pc = "done" /\ ~err.nil) =>
       /\ ~HandlerCalled
       /\ responses[1].status = 400
       /\ responses[1].code = convertToErrorResult(err).code
       /\ responses[1].message = convertToErrorResult(err).message
  /\ (pc = "done" /\ ret.result = "value" /\ ret.err.nil) =>
       responses[1].status = 200 /\ responses[1].data = "result"

\* a request that failed in the constraint pass has been answered
C8_Witness ==
  /\ pc = "done"
  /\ ~err.nil
  /\ trace[Len(trace)] = <<"validate">>
  /\ responses[1].status = 400

\* C9: a plain error returned by a handler, whatever its text, is answered with
\* ERR_NOT_SPECIFIED and the fixed generic message.
C9_PlainErrorsAreGeneric ==
  (pc = "done" /\ ~ret.err.nil /\ ret.err.kind = "plain") =>
     /\ responses[1].code = <<"ERR_NOT_SPECIFIED">>
     /\ responses[1].message = <<"An", "unknown", "exception", "occurred">>

\* C10: a SchemaError or ErrorResult returned by a handler reaches the client with exactly
\* its code and its message, also when the message contains the marker phrases of the parser.
C10_UserErrorsVerbatim ==
  (pc = "done" /\ ~ret.err.nil /\ ret.err.kind \in {"SchemaError", "ErrorResult"}) =>
     /\ Len(responses) = 1
     /\ responses[1].status = 400
     /\ responses[1].code = ret.err.code
     /\ responses[1].message = ret.err.msg

\* a SchemaError whose message holds a marker phrase has been answered
C10_Witness ==
  /\ pc = "done"
  /\ ret.err.kind = "SchemaError"
  /\ StrContains(ret.err.msg, <<"params", "validation", "failed">>)
  /\ responses[1].message = ret.err.msg

(***************************************************************************)
(* Properties of document generation (specification GenSpec)               *)
(***************************************************************************)
\* C2: document generation terminates for every registered type, self-referential record
\* types included: the recursion never outgrows the stack.
C2_GenerationTerminates == gpc # "overflow"

\* C3: within one generation pass a name stored in the named-schema table is never
\* overwritten.
C3_NeverOverwritten ==
  [][gpc = "gen" => \A n \in DOMAIN schemas : n \in DOMAIN schemas' /\ schemas'[n] = schemas[n]]_vars

\* the JSON names of the fields of a struct that the generator gives a property
PropertyNames(t) ==
  { getJSONFieldName(t.fields[i]) : i \in { k \in 1..Len(t.fields) : IsExported(t.fields[k]) /\ getJSONFieldName(t.fields[k]) # cDash } }

\* C4: for every operation that declares a Body sub-record, the request-body schema of
\* the document, after following its $ref, has exactly the properties of that
\* operation's own Body fields.
C4_RequestBodyOwnFields ==
  gpc = "done" =>
     \A k \in 1..Len(handlerInfos) :
        LET info == handlerInfos[k]
            op   == paths[convertGinPathToOpenAPI(info.path)][info.method]
            name == Tail(op.requestBody[1].schema.ref)
        IN BodyField(info.schemaType) # <<>> =>
             /\ op.requestBody # <<>>
             /\ name \in DOMAIN schemas
             /\ DOMAIN schemas[name].properties = PropertyNames(TypeOf(BodyField(info.schemaType)[1].type))

(***************************************************************************)
(* Properties of the error mapping (specification Spec)                    *)
(***************************************************************************)
\* the pass or location in which parseSchema failed: the last entry of the trace
FailedIn == trace[Len(trace)]

\* the code that belongs to the pass or location a failure comes from
CodeFor(where) ==
  IF where = pParams THEN <<"ERR_INVALID_PARAMS">>
  ELSE IF where = pQuery THEN <<"ERR_INVALID_QUERY">>
  ELSE IF where = pBody THEN <<"ERR_INVALID_BODY">>
  ELSE <<"ERR_VALIDATION_FAILED">>

\* C11: every failure of the parser or validator is answered with the code of the pass
\* and location that produced it: Params gives ERR_INVALID_PARAMS, Query gives
\* ERR_INVALID_QUERY, Body gives ERR_INVALID_BODY, the constraint pass gives
\* ERR_VALIDATION_FAILED.
C11_MappedByLocation ==
  (pc = "done" /\ ~err.nil) => responses[1].code = CodeFor(FailedIn)

\* C12: when the request body is present but is not parseable as JSON, the failure of
\* the Body location is answered with code ERR_INVALID_JSON.
C12_InvalidJSONCode ==
  (pc = "done" /\ ~err.nil /\ FailedIn = pBody /\ c.body.present /\ ~c.body.valid) =>
     responses[1].code = <<"ERR_INVALID_JSON">>

(***************************************************************************)
(* Properties of authentication (specification AuthSpec)                   *)
(***************************************************************************)
\* the component's own middleware admits the request
Accepts(scheme) == MiddlewareOutcome(AppSchemes[scheme], authReq) = "next"

MultiFinished == AppSchemes[authScheme].kind = "multi" /\ authPc \in {"next", "401"}

\* C13: a MultiSecurity tries its components in declared order, admits the request at the
\* first component that accepts it without trying later ones, and rejects with 401 only
\* when every component rejects: the request is admitted iff some component accepts it.
C13_MultiOrSemantics ==
  MultiFinished =>
    /\ authTried = SubSeq(AppSchemes[authScheme].Schemes, 1, Len(authTried))
    /\ \A k \in 1..(Len(authTried) - 1) : ~Accepts(authTried[k])
    /\ (authPc = "next") <=> (\E i \in 1..Len(AppSchemes[authScheme].Schemes) : Accepts(AppSchemes[authScheme].Schemes[i]))

(***************************************************************************)
(* Properties of the security section of the document (specification       *)
(* GenSpec)                                                                *)
(***************************************************************************)
\* the operation of handler info is stored in the document
Stored(info) ==
  /\ convertGinPathToOpenAPI(info.path) \in DOMAIN paths
  /\ info.method \in DOMAIN paths[convertGinPathToOpenAPI(info.path)]

StoredOperation(info) == paths[convertGinPathToOpenAPI(info.path)][info.method]

\* the names a security list requires, entry by entry
RequiredNames(security) == [k \in 1..Len(security) |-> DOMAIN security[k]]

\* C14: every security requirement of an operation names exactly one scheme; a
\* MultiSecurity of N components contributes N single-scheme entries in declared order.
C14_SingleSchemeRequirements ==
  /\ \A k \in 1..Len(operation.security) : Cardinality(DOMAIN operation.security[k]) = 1
  /\ \A i \in 1..Len(handlerInfos) :
       Stored(handlerInfos[i]) =>
         RequiredNames(StoredOperation(handlerInfos[i]).security)
           = [k \in 1..Len(SecurityComponents(handlerInfos[i].securitySchemes)) |->
                { AppSchemes[SecurityComponents(handlerInfos[i].securitySchemes)[k]].Name }]

\* a route protected by the MultiSecurity of an API key and a bearer scheme is in the
\* document, with two requirement entries
C14_Witness ==
  \E i \in 1..Len(handlerInfos) :
    /\ handlerInfos[i].securitySchemes = << "flexible" >>
    /\ Stored(handlerInfos[i])
    /\ RequiredNames(StoredOperation(handlerInfos[i]).security) = << {"ApiKeyAuth"}, {"BearerAuth"} >>

RECURSIVE SchemesUnder(_)
\* the schemes reachable from a list of schemes, components of MultiSecurity included
SchemesUnder(ss) ==
  IF ss = <<>> THEN {}
  ELSE {Head(ss)} \cup SchemesUnder(AppSchemes[Head(ss)].Schemes) \cup SchemesUnder(Tail(ss))

\* the names required by some operation of the document
NamesRequired ==
  UNION { UNION { DOMAIN StoredOperation(handlerInfos[i]).security[k] :
                    k \in 1..Len(StoredOperation(handlerInfos[i]).security) } :
          i \in { j \in 1..Len(handlerInfos) : Stored(handlerInfos[j]) } }

\* C15: after generation, the own name of every MultiSecurity reachable from a registered
\* route, directly or as a component of another MultiSecurity, is neither a key of
\* components.securitySchemes nor part of a security requirement.
C15_MultiOwnsNoFragment ==
  gpc = "done" =>
    \A i \in 1..Len(handlerInfos) :
      \A m \in SchemesUnder(handlerInfos[i].securitySchemes) :
        AppSchemes[m].kind = "multi" =>
          /\ AppSchemes[m].Name \notin DOMAIN securitySchemes
          /\ AppSchemes[m].Name \notin NamesRequired

\* C16: a name stored in the security-scheme table keeps its fragment for the rest of
\* the generation pass.
C16_RegisteredOnce ==
  [][gpc = "gen" => \A n \in DOMAIN securitySchemes :
                      n \in DOMAIN securitySchemes' /\ securitySchemes'[n] = securitySchemes[n]]_vars

\* the header API key was registered as "ApiKeyAuth", and a later operation used the
\* query API key of the same name
C16_Witness ==
  /\ gpc = "done"
  /\ Len(handlerInfos) = 2
  /\ "apiKey" \in SchemesUnder(handlerInfos[1].securitySchemes)
  /\ "queryKey" \in SchemesUnder(handlerInfos[2].securitySchemes)
  /\ securitySchemes["ApiKeyAuth"] = GetSecurityScheme(AppSchemes["apiKey"])

(***************************************************************************)
(* Properties of schema naming (specification GenSpec)                     *)
(***************************************************************************)
\* the named struct types whose schema is in the table
StoredNamedStructs ==
  { id \in DOMAIN rtypes : rtypes[id].kind = "struct" /\ rtypes[id].name # <<>> /\ rtypes[id].name \in DOMAIN schemas }

\* the fields of struct t that get a property and are an anonymous struct, or a slice of one
AnonStructId(id) == TypeOf(id).kind = "struct" /\ TypeOf(id).name = <<>>
AnonFields(t) ==
  { i \in 1..Len(t.fields) : IsExported(t.fields[i]) /\ getJSONFieldName(t.fields[i]) # cDash
                              /\ AnonStructId(t.fields[i].type) }
AnonSliceFields(t) ==
  { i \in 1..Len(t.fields) : IsExported(t.fields[i]) /\ getJSONFieldName(t.fields[i]) # cDash
                              /\ TypeOf(t.fields[i].type).kind = "slice"
                              /\ AnonStructId(TypeOf(t.fields[i].type).elem) }

Capitalised(jsonName) == <<UpperCh(jsonName[1])>> \o Tail(jsonName)

\* C17: for a named record type with a field that is a sequence of anonymous records, the
\* element schema is stored under the type's name + the capitalised field name + "Item",
\* and the field's array items refer to it.
C17_ElementSchemaName ==
  \A id \in StoredNamedStructs :
    \A i \in AnonSliceFields(rtypes[id]) :
      LET jsonName == getJSONFieldName(rtypes[id].fields[i])
          itemName == rtypes[id].name \o Capitalised(jsonName) \o <<"Item">>
      IN /\ itemName \in DOMAIN schemas
         /\ schemas[rtypes[id].name].properties[jsonName].items = << RefTo(itemName) >>

\* C18: for a named record type T with a field F of anonymous record type, the table has
\* a node named T + capitalised json name of F, distinct from the node named T, and T's
\* property F is a $ref to it.
C18_AnonymousFieldSchemaName ==
  \A id \in StoredNamedStructs :
    \A i \in AnonFields(rtypes[id]) :
      LET jsonName == getJSONFieldName(rtypes[id].fields[i])
          fieldName == rtypes[id].name \o Capitalised(jsonName)
      IN /\ fieldName \in DOMAIN schemas
         /\ fieldName # rtypes[id].name
         /\ schemas[rtypes[id].name].properties[jsonName].ref = RefTo(fieldName).ref

\* SearchResponse and the schema of its Page field are in the table
C18_Witness ==
  /\ <<"SearchResponse">> \in DOMAIN schemas
  /\ <<"SearchResponse", "P", "a", "g", "e">> \in DOMAIN schemas
  /\ DOMAIN schemas[<<"SearchResponse", "P", "a", "g", "e">>].properties
       = { <<"c","u","r","r","e","n","t">>, <<"t","o","t","a","l">> }

(***************************************************************************)
(* Properties of parameter detection (specification GenSpec)               *)
(***************************************************************************)
\* the top-level fields of a handler's schema type
TopFields(info) ==
  IF TypeOf(Deref(info.schemaType)).kind = "struct" THEN TypeOf(Deref(info.schemaType)).fields ELSE <<>>

\* the stored operation of info lists a query parameter called name
ListsQuery(info, name) ==
  \E p \in 1..Len(StoredOperation(info).parameters) :
    /\ StoredOperation(info).parameters[p].name = name
    /\ StoredOperation(info).parameters[p].in = "query"

PrimitiveOrSliceOfPrimitive(t) ==
  t.kind \in PrimitiveKinds \/ (t.kind = "slice" /\ TypeOf(t.elem).kind \in PrimitiveKinds)

\* C19: a top-level field of primitive kind (or sequence of primitives) with a json tag
\* is listed in the operation as an "in: query" parameter named from the json tag, a
\* primitive field that is itself named Query included.
C19_PrimitiveFieldsListed ==
  \A i \in 1..Len(handlerInfos) :
    Stored(handlerInfos[i]) =>
      \A k \in 1..Len(TopFields(handlerInfos[i])) :
        LET field == TopFields(handlerInfos[i])[k] IN
        ( /\ PrimitiveOrSliceOfPrimitive(TypeOf(field.type))
          /\ getTagValue(field, "query") = <<>>
          /\ getTagValue(field, "json") # <<>> /\ getTagValue(field, "json") # cDash )
        => ListsQuery(handlerInfos[i], getTagValue(field, "json"))

\* the kinds auto-detection may accept: primitive, pointer to primitive, sequence of primitives
AutoDetectable(t) ==
  \/ t.kind \in PrimitiveKinds
  \/ t.kind \in {"ptr", "slice"} /\ TypeOf(t.elem).kind \in PrimitiveKinds

\* the top-level fields left to auto-detection: not a Params or Query container, no query tag
AutoFields(info) ==
  { k \in 1..Len(TopFields(info)) :
      /\ ToLower(TopFields(info)[k].name) \notin { <<"p","a","r","a","m","s">>, <<"q","u","e","r","y">> }
      /\ getTagValue(TopFields(info)[k], "query") = <<>> }

\* C20: a top-level field that is a record, a pointer to a record or a sequence of
\* records is never auto-detected as a parameter; auto-detection accepts only
\* primitives, pointers to primitives and sequences of primitives.
C20_OnlyPrimitivesAutoDetected ==
  \A i \in 1..Len(handlerInfos) :
    Stored(handlerInfos[i]) =>
      \A k \in AutoFields(handlerInfos[i]) :
        LET field == TopFields(handlerInfos[i])[k] IN
        (\E p \in 1..Len(StoredOperation(handlerInfos[i]).parameters) :
            StoredOperation(handlerInfos[i]).parameters[p].name = getQueryParameterName(field))
        => AutoDetectable(TypeOf(field.type))

\* the operation of FilterSchema is in the document: its primitive fields were detected,
\* its record fields were not
C20_Witness ==
  \E i \in 1..Len(handlerInfos) :
    /\ handlerInfos[i].schemaType = "FilterSchema"
    /\ Stored(handlerInfos[i])
    /\ [p \in 1..Len(StoredOperation(handlerInfos[i]).parameters) |-> StoredOperation(handlerInfos[i]).parameters[p].name]
         = << <<"t","a","g","s">>, <<"l","i","m","i","t">> >>

(***************************************************************************)
(* Properties of the body step (specification Spec)                        *)
(***************************************************************************)
BodyStepRan == \E k \in 1..Len(trace) : trace[k] = pBody
BodyStepFailed == ~err.nil /\ trace[Len(trace)] = pBody

\* C21: with an empty request body and a Body sub-record without required fields, the
\* body step reports no error and leaves every Body field unchanged.
C21_EmptyBodySkipped ==
  \A i \in Containers(schemaType) :
    ( /\ ContainerLoc(schemaType, i) = pBody
      /\ c.body.empty
      /\ ~hasRequiredFields(ContainerType(schemaType, i))
      /\ BodyStepRan )
    => /\ ~BodyStepFailed
       /\ schema.f[i] = Zero(TypeOf(schemaType).fields[i].type)

ChainAdmits(info, req) ==
  \A k \in 1..Len(info.securitySchemes) :
    MiddlewareOutcome(AppSchemes[info.securitySchemes[k]], req) = "next"

\* the request carries the credential a components.securitySchemes fragment describes
FragmentSatisfied(fragment, req) ==
  CASE fragment.type = "apiKey" /\ fragment.in = "header" -> req.header \in ValidKeys
    [] fragment.type = "apiKey" /\ fragment.in = "query" -> req.query \in ValidKeys
    [] fragment.type = "http" /\ fragment.scheme = "bearer" ->
         /\ HasBearerPrefix(req.authorization)
         /\ SubSeq(req.authorization, 8, Len(req.authorization)) \in ValidTokens
    [] fragment.type = "oauth2" -> req.authorization # <<>>
    [] OTHER -> FALSE

\* the security requirement list of an operation admits the request: no requirement at
\* all, or one entry all of whose named schemes are satisfied
DocumentAdmits(security, req) ==
  \/ security = <<>>
  \/ \E k \in 1..Len(security) :
       \A n \in DOMAIN security[k] :
         n \in DOMAIN securitySchemes /\ FragmentSatisfied(securitySchemes[n], req)

\* C29: for every route of the generated document, the requests its security middleware
\* chain admits are exactly the requests its documented security requirement list admits.
C29_DocumentedEqualsEnforced ==
  gpc = "done" =>
    \A i \in 1..Len(handlerInfos) : \A req \in AuthRequests :
      ChainAdmits(handlerInfos[i], req)
        <=> DocumentAdmits(StoredOperation(handlerInfos[i]).security, req)

(***************************************************************************)
(* Properties of references in the document (specification GenSpec)        *)
(***************************************************************************)
RECURSIVE RefsOf(_)
\* the $ref values that occur in a schema node, nested nodes included
RefsOf(node) ==
  (IF node.ref = <<>> THEN {} ELSE {node.ref})
    \cup UNION { RefsOf(node.items[k]) : k \in DOMAIN node.items }
    \cup UNION { RefsOf(node.properties[p]) : p \in DOMAIN node.properties }

\* the $ref values that occur in an operation
OperationRefs(op) ==
  UNION { RefsOf(op.parameters[k].schema) : k \in DOMAIN op.parameters }
    \cup UNION { RefsOf(op.requestBody[k].schema) : k \in DOMAIN op.requestBody }
    \cup UNION { RefsOf(op.response[k]) : k \in DOMAIN op.response }

\* the $ref values that occur anywhere in a document
DocumentRefs(doc) ==
  UNION { UNION { OperationRefs(doc.paths[p][m]) : m \in DOMAIN doc.paths[p] } : p \in DOMAIN doc.paths }
    \cup UNION { RefsOf(doc.schemas[n]) : n \in DOMAIN doc.schemas }

\* C30: in every returned document, each $ref that starts with #/components/schemas/
\* names a key of components.schemas, and each scheme name of an operation's security
\* requirement is a key of components.securitySchemes.
C30_ReferentiallyClosed ==
  \A d \in 1..Len(docs) :
    /\ \A r \in DocumentRefs(docs[d]) :
         Head(r) = "#/components/schemas/" => Tail(r) \in DOMAIN docs[d].schemas
    /\ \A p \in DOMAIN docs[d].paths : \A m \in DOMAIN docs[d].paths[p] :
         \A k \in DOMAIN docs[d].paths[p][m].security :
           DOMAIN docs[d].paths[p][m].security[k] \subseteq DOMAIN docs[d].securitySchemes

\* a returned document has a $ref in an operation, a $ref inside a stored schema and an
\* operation with a security requirement
C30_Witness ==
  \E d \in 1..Len(docs) :
    /\ \E p \in DOMAIN docs[d].paths : \E m \in DOMAIN docs[d].paths[p] :
         /\ OperationRefs(docs[d].paths[p][m]) # {}
         /\ docs[d].paths[p][m].security # <<>>
    /\ \E n \in DOMAIN docs[d].schemas : RefsOf(docs[d].schemas[n]) # {}

(***************************************************************************)
(* Properties of response wrapping (specification Spec)                    *)
(***************************************************************************)
\* C25: the handler was built by ValidateAndHandle while DefaultWrapper was the
\* configured wrapper; its success and error responses are wrapped by DefaultWrapper,
\* also when SetResponseWrapper has been called with another wrapper since.
C25_HandlerKeepsItsWrapper ==
  pc = "done" =>
    responses[1] = IF responses[1].status = 200
                   THEN DefaultWrapSuccess(200, responses[1].data)
                   ELSE DefaultWrapError(responses[1].status, responses[1].code, responses[1].message)

(***************************************************************************)
(* Properties of the registries (specification RegSpec)                    *)
(***************************************************************************)
\* C23: a key of the operation registry or of the security-scheme registry keeps its
\* entry: no registration call replaces, extends or removes it.
C23_RegistriesWriteOnce ==
  [][ /\ \A key \in DOMAIN typedHandlers :
           key \in DOMAIN typedHandlers' /\ typedHandlers'[key] = typedHandlers[key]
      /\ \A key \in DOMAIN securitySchemeRegistry :
           /\ key \in DOMAIN securitySchemeRegistry'
           /\ securitySchemeRegistry'[key] = securitySchemeRegistry[key] ]_vars

(***************************************************************************)
(* Properties of a router group (specification GroupSpec)                  *)
(***************************************************************************)
RECURSIVE ProducersOf(_)
\* the schemes whose Middleware() produced the handlers of a chain, in chain order
ProducersOf(chain) ==
  IF chain = <<>> THEN <<>>
  ELSE (IF Head(chain).scheme = "none" THEN <<>> ELSE << Head(chain).scheme >>) \o ProducersOf(Tail(chain))

\* C26: the schemes detected for the group are exactly the schemes that produced the
\* handlers passed to Use, in order (a handler no scheme produced contributes none), and
\* every route of the group is registered with exactly the schemes of its group handlers.
C26_DetectionExact ==
  /\ groupSecuritySchemes = ProducersOf(groupHandlers)
  /\ \A k \in 1..Len(ginRoutes) :
       GetSecuritySchemes(securitySchemeRegistry, ginRoutes[k].method, ginRoutes[k].path)
         = ProducersOf(ginRoutes[k].chain)

(***************************************************************************)
(* Properties of the inject container (specification InjSpec)              *)
(***************************************************************************)
\* the type-keyed registrations of the container
TypeKeyed == { key \in DOMAIN services : key.kind = "type" }

\* the registration stored for a type is one for that type: a value of the type or a
\* factory of the type
RegisteredFor(type) ==
  /\ TypeKey(type) \in DOMAIN services
  /\ services[TypeKey(type)].type = type

\* C27: Resolve[T] returns ErrServiceNotFound when the container holds no type-keyed
\* registration (named ones do not count), ErrInvalidServiceType when type-keyed
\* registrations exist but none for T or the stored value is not a T, and otherwise the
\* service for T with a nil error.
C27_ResolveErrors ==
  injResult.op = "Resolve" =>
    IF TypeKeyed = {} THEN injResult.ret.err = "ErrServiceNotFound"
    ELSE IF ~RegisteredFor(injResult.type) THEN injResult.ret.err = "ErrInvalidServiceType"
    ELSE /\ injResult.ret.err = "nil"
         /\ injResult.ret.val = Instance(injResult.type, services[TypeKey(injResult.type)].id)

\* Resolve was called on a container that holds named registrations only
C27_Witness ==
  /\ injResult.op = "Resolve"
  /\ NameKey("providers") \in DOMAIN services
  /\ TypeKeyed = {}
  /\ injResult.ret.err = "ErrServiceNotFound"

\* the registrations stored under a name, in order
NamedRegistrations(svcs, name) == IF NameKey(name) \in DOMAIN svcs THEN svcs[NameKey(name)] ELSE <<>>

\* the services of the registrations of one type in a list of registrations, in order
ServicesOfType(registrations, type) ==
  LET RECURSIVE Pick(_)
      Pick(k) == IF k > Len(registrations) THEN <<>>
                 ELSE (IF registrations[k].type = type
                       THEN << Instance(type, registrations[k].id) >> ELSE <<>>) \o Pick(k + 1)
  IN Pick(1)

IsPrefix(s, t) == Len(s) <= Len(t) /\ SubSeq(t, 1, Len(s)) = s

\* C28: the registrations under a name accumulate in call order; GetAllNamed[T] returns
\* the services of the registrations of type T under the name in registration order,
\* GetNamed[T] returns the first of them, and a registration under another name changes
\* neither result.
C28_NamedAccumulate ==
  [][ \A name \in InjNames :
        /\ IsPrefix(NamedRegistrations(services, name), NamedRegistrations(services', name))
        /\ \A type \in InjTypes :
             LET expected == ServicesOfType(NamedRegistrations(services', name), type) IN
             /\ GetAllNamed(services', type, name) = expected
             /\ expected # <<>> => GetNamed(services', type, name) = expected[1]
             /\ NamedRegistrations(services', name) = NamedRegistrations(services, name) =>
                  /\ GetAllNamed(services', type, name) = GetAllNamed(services, type, name)
                  /\ GetNamed(services', type, name) = GetNamed(services, type, name) ]_vars

(***************************************************************************)
(* Properties of concurrent calls (specification ConcSpec)                 *)
(***************************************************************************)
RECURSIVE ParseAlone(_, _, _, _)
\* what parseSchema returns for a request when nothing else runs: the instance and the
\* error, from field i on
ParseAlone(st, req, i, inst) ==
  LET fields == TypeOf(st).fields IN
  IF i > Len(fields)
  THEN LET e == ValidationError(StructErrors(TypeOf(st), inst, "validate", TypeOf(st).name)) IN
       [schema |-> inst, err |-> IF e.nil THEN Nil ELSE Wrap(<<"validation", "failed">>, e)]
  ELSE LET loc == ToLower(fields[i].name)
           t   == TypeOf(fields[i].type)
           r   == IF loc = pParams THEN parseParams(req, t, inst.f[i])
                  ELSE IF loc = pQuery THEN parseQuery(req, t, inst.f[i])
                  ELSE parseBody(req, t, inst.f[i])
       IN IF loc \notin {pParams, pQuery, pBody} THEN ParseAlone(st, req, i + 1, inst)
          ELSE IF ~r.err.nil
               THEN [schema |-> inst, err |-> Wrap(LocWord(loc) \o <<"validation", "failed">>, r.err)]
               ELSE ParseAlone(st, req, i + 1, [inst EXCEPT !.f[i] = r.val])

\* every document returned so far is the document of the call that ran alone, and a
\* finished parse has the instance and the error of a parse that ran alone
SameAsAlone ==
  /\ \A d \in 1..Len(docs) : docs[d] = docs[1]
  /\ pc \in {"handler", "failed"} =>
       /\ schema = ParseAlone(schemaType, c, 1, Zero(schemaType)).schema
       /\ err = ParseAlone(schemaType, c, 1, Zero(schemaType)).err

====
